---- MODULE Spec2Model ----
(***************************************************************************)
(* ColourPicker: gradient engine, colour naming and the ColourWheelApp     *)
(* event handlers.                                                         *)
(*                                                                         *)
(* Real numbers (Python floats) are modelled as exact rationals <<n, d>>   *)
(* with d > 0, kept in lowest terms.  The input grids below are chosen so  *)
(* that every power the code takes has an exact rational value.            *)
(***************************************************************************)
EXTENDS Integers, Sequences, FiniteSets, TLC

(* ------------------------------ bounds -------------------------------- *)
\* largest number of gradient steps explored
MaxSteps == 3
\* largest number of color_utils calls in one explored run
MaxCalls == 3
\* most two-character groups in the body of a hex_to_rgb argument
MaxPairs == 3

(* --------------------------- exact rationals --------------------------- *)
Abs(x) == IF x < 0 THEN -x ELSE x

RECURSIVE Gcd(_, _)
Gcd(a, b) == IF b = 0 THEN a ELSE Gcd(b, a % b)

\* the rational n/d in lowest terms (d # 0)
Rat(n, d) ==
    LET s == IF d < 0 THEN -1 ELSE 1
        g == Gcd(Abs(n), Abs(d))
    IN  <<(s * n) \div g, (s * d) \div g>>

Int2Rat(k) == <<k, 1>>
RAdd(a, b) == Rat(a[1] * b[2] + b[1] * a[2], a[2] * b[2])
RSub(a, b) == Rat(a[1] * b[2] - b[1] * a[2], a[2] * b[2])
RMul(a, b) == Rat(a[1] * b[1], a[2] * b[2])
\* Python x % 1.0 : the result has the sign of the divisor, so it is in [0,1)
RMod1(a) == Rat(a[1] % a[2], a[2])
\* Python int(x): truncation toward zero
RTrunc(a) == IF a[1] >= 0 THEN a[1] \div a[2] ELSE -((-a[1]) \div a[2])

RECURSIVE IPow(_, _)
IPow(b, k) == IF k = 0 THEN 1 ELSE b * IPow(b, k - 1)

\* a ** k for a natural exponent k
RPow(a, k) == Rat(IPow(a[1], k), IPow(a[2], k))
\* does the non-negative rational a have an exact rational k-th root
HasRoot(a, k) ==
    /\ a[1] >= 0
    /\ \E r \in 0..a[1] : IPow(r, k) = a[1]
    /\ \E r \in 1..a[2] : IPow(r, k) = a[2]
\* a ** (1/k) where that root is rational
RRoot(a, k) ==
    <<CHOOSE r \in 0..a[1] : IPow(r, k) = a[1],
      CHOOSE r \in 1..a[2] : IPow(r, k) = a[2]>>

Zero == Int2Rat(0)
One == Int2Rat(1)
Half == Rat(1, 2)
Quarter == Rat(1, 4)

(* ------------------------- colour conversion --------------------------- *)
\* variant of hsv_to_rgb255: channels scaled by 256
hsv_to_rgb255_scale256(h, s, v) ==
    IF s = Zero
    THEN <<RTrunc(RMul(v, Int2Rat(256))), RTrunc(RMul(v, Int2Rat(256))),
           RTrunc(RMul(v, Int2Rat(256)))>>
    ELSE
    LET h6 == RMul(h, Int2Rat(6))
        i0 == RTrunc(h6)
        f  == RSub(h6, Int2Rat(i0))
        p  == RMul(v, RSub(One, s))
        q  == RMul(v, RSub(One, RMul(s, f)))
        t  == RMul(v, RSub(One, RMul(s, RSub(One, f))))
        i  == i0 % 6
        c(x) == RTrunc(RMul(x, Int2Rat(256)))
    IN  CASE i = 0 -> <<c(v), c(t), c(p)>>
          [] i = 1 -> <<c(q), c(v), c(p)>>
          [] i = 2 -> <<c(p), c(v), c(t)>>
          [] i = 3 -> <<c(p), c(q), c(v)>>
          [] i = 4 -> <<c(t), c(p), c(v)>>
          [] i = 5 -> <<c(v), c(p), c(q)>>

\* colorsys.hsv_to_rgb followed by int(x * 255) on each channel
hsv_to_rgb255(h, s, v) ==
    IF s = Zero
    THEN <<RTrunc(RMul(v, Int2Rat(255))), RTrunc(RMul(v, Int2Rat(255))),
           RTrunc(RMul(v, Int2Rat(255)))>>
    ELSE
    LET h6 == RMul(h, Int2Rat(6))
        i0 == RTrunc(h6)
        f  == RSub(h6, Int2Rat(i0))
        p  == RMul(v, RSub(One, s))
        q  == RMul(v, RSub(One, RMul(s, f)))
        t  == RMul(v, RSub(One, RMul(s, RSub(One, f))))
        i  == i0 % 6
        c(x) == RTrunc(RMul(x, Int2Rat(255)))
    IN  CASE i = 0 -> <<c(v), c(t), c(p)>>
          [] i = 1 -> <<c(q), c(v), c(p)>>
          [] i = 2 -> <<c(p), c(v), c(t)>>
          [] i = 3 -> <<c(p), c(q), c(v)>>
          [] i = 4 -> <<c(t), c(p), c(v)>>
          [] i = 5 -> <<c(v), c(p), c(q)>>

(* --------------------------- gradient engine --------------------------- *)
\* curve is the slider value, a multiple of 50 in -100..100, so that the
\* exponent 1 + 2|c| is the integer 1 + |curve| / 50
CurveExp(curve) == 1 + Abs(curve) \div 50

\* variant of curve_t: the curve is ignored
curve_t_linear(t, curve) == t

\* gradient_logic.curve_t
curve_t(t, curve) ==
    IF curve = 0 THEN t
    ELSE IF curve > 0 THEN RRoot(t, CurveExp(curve))
    ELSE RPow(t, CurveExp(curve))

\* variants of StepT: t = 1 for a single step; divisor steps instead of steps - 1
StepT_one(i, steps) == IF steps > 1 THEN Rat(i, steps - 1) ELSE One
StepT_nominus(i, steps) == IF steps > 1 THEN Rat(i, steps) ELSE Zero

\* the interpolation parameter of step i
StepT(i, steps) == IF steps > 1 THEN Rat(i, steps - 1) ELSE Zero

\* the power taken by curve_t is exact for every step of the gradient
CurveExact(steps, curve) ==
    curve > 0 => \A i \in 0..(steps - 1) : HasRoot(StepT(i, steps), CurveExp(curve))

\* variant of HueDelta: the plain difference of the two hues
HueDelta_long(h1, h2) == RSub(h2, h1)

\* dh = ((h2 - h1 + 1.5) % 1.0) - 0.5, the signed shortest hue difference
HueDelta(h1, h2) == RSub(RMod1(RAdd(RSub(h2, h1), Rat(3, 2))), Half)

\* variant of GradientColorAt: plain hue difference, no circular wrap
GradientColorAt_nowrap(i, steps, h1, s1, v1, h2, s2, v2, curve) ==
    LET t == StepT(i, steps)
        t_curve == curve_t(t, curve)
        dh == RSub(h2, h1)
        h == RMod1(RAdd(h1, RMul(t_curve, dh)))
        s == RAdd(s1, RMul(t_curve, RSub(s2, s1)))
        v == RAdd(v1, RMul(t_curve, RSub(v2, v1)))
    IN  hsv_to_rgb255(h, s, v)

\* body of the loop of calculate_gradient_colors for index i, after the
\* endpoint adjustments
GradientColorAt(i, steps, h1, s1, v1, h2, s2, v2, curve) ==
    LET t == StepT(i, steps)
        t_curve == curve_t(t, curve)
        dh == HueDelta(h1, h2)
        h == RMod1(RAdd(h1, RMul(t_curve, dh)))
        s == RAdd(s1, RMul(t_curve, RSub(s2, s1)))
        v == RAdd(v1, RMul(t_curve, RSub(v2, v1)))
    IN  hsv_to_rgb255(h, s, v)

\* gradient_logic.calculate_gradient_colors
calculate_gradient_colors(steps, h1, s1, v1, h2, s2, v2, fine_shade1, fine_shade2, fine_hue2, gradient_curve, shade) ==
    LET v1a == RMul(shade, fine_shade1)
        v2a == RMul(shade, fine_shade2)
        h2a == RMod1(RAdd(h2, fine_hue2))
    IN  [i \in 1..steps |->
            GradientColorAt(i - 1, steps, h1, s1, v1a, h2a, s2, v2a, gradient_curve)]

(* ------------------------- binary64 arithmetic ------------------------- *)
\* A natural number is the sequence of its digits in base 2^15, least
\* significant first, without leading zero digits; <<>> is zero.
Base == 32768

RECURSIVE LNorm(_)
LNorm(a) == IF a = <<>> \/ a[Len(a)] # 0 THEN a ELSE LNorm(SubSeq(a, 1, Len(a) - 1))

\* a + b
LAdd(a, b) ==
    LET RECURSIVE AddC(_, _, _)
        AddC(x, y, c) ==
            IF x = <<>> /\ y = <<>> THEN (IF c = 0 THEN <<>> ELSE <<c>>)
            ELSE LET s == (IF x = <<>> THEN 0 ELSE Head(x)) + (IF y = <<>> THEN 0 ELSE Head(y)) + c
                 IN  <<s % Base>> \o AddC(IF x = <<>> THEN x ELSE Tail(x),
                                          IF y = <<>> THEN y ELSE Tail(y), s \div Base)
    IN  AddC(a, b, 0)

\* a - b for a >= b
LSub(a, b) ==
    LET RECURSIVE SubC(_, _, _)
        SubC(x, y, c) ==
            IF x = <<>> THEN <<>>
            ELSE LET d == Head(x) - (IF y = <<>> THEN 0 ELSE Head(y)) - c
                 IN  <<d % Base>> \o SubC(Tail(x), IF y = <<>> THEN y ELSE Tail(y),
                                          IF d < 0 THEN 1 ELSE 0)
    IN  LNorm(SubC(a, b, 0))

\* a < b
RECURSIVE LLess(_, _)
LLess(a, b) ==
    IF Len(a) # Len(b) THEN Len(a) < Len(b)
    ELSE IF a = <<>> THEN FALSE
    ELSE IF a[Len(a)] # b[Len(b)] THEN a[Len(a)] < b[Len(b)]
    ELSE LLess(LNorm(SubSeq(a, 1, Len(a) - 1)), LNorm(SubSeq(b, 1, Len(b) - 1)))

\* a * k + c for one digit k
RECURSIVE LMulSmall(_, _, _)
LMulSmall(a, k, c) ==
    IF a = <<>> THEN (IF c = 0 THEN <<>> ELSE <<c>>)
    ELSE LET p == Head(a) * k + c
         IN  <<p % Base>> \o LMulSmall(Tail(a), k, p \div Base)

RECURSIVE LMul(_, _)
LMul(a, b) ==
    IF a = <<>> \/ b = <<>> THEN <<>>
    ELSE LET rest == LMul(a, Tail(b))
         IN  LAdd(LMulSmall(a, Head(b), 0), IF rest = <<>> THEN rest ELSE <<0>> \o rest)

RECURSIVE LFromInt(_)
LFromInt(n) == IF n = 0 THEN <<>> ELSE <<n % Base>> \o LFromInt(n \div Base)

\* a * 2^k
LShiftL(a, k) ==
    IF a = <<>> THEN a
    ELSE [i \in 1..(k \div 15) |-> 0] \o LMulSmall(a, IPow(2, k % 15), 0)

\* a \div 2^k
LShiftR(a, k) ==
    LET RECURSIVE DivSmall(_, _)
        \* <<x \div d, x % d>> for one digit d > 0
        DivSmall(x, d) ==
            IF x = <<>> THEN <<<<>>, 0>>
            ELSE LET hi == DivSmall(Tail(x), d)
                     cur == hi[2] * Base + Head(x)
                 IN  <<<<cur \div d>> \o hi[1], cur % d>>
    IN  IF k \div 15 >= Len(a) THEN <<>>
        ELSE LNorm(DivSmall(SubSeq(a, k \div 15 + 1, Len(a)), IPow(2, k % 15))[1])

\* A binary64 number is sg * m * 2^e with m odd, or zero: [sg, m, e]. The
\* numbers of a gradient are far from the overflow and subnormal ranges,
\* and the sign of a zero does not reach any result.
FZero == [sg |-> 1, m |-> <<>>, e |-> 0]

\* the unique representation of sg * m * 2^e
FCanon(sg, m, e) ==
    LET RECURSIVE IntLowZeros(_), LowZeros(_)
        IntLowZeros(n) == IF n % 2 = 1 THEN 0 ELSE 1 + IntLowZeros(n \div 2)
        LowZeros(a) == IF Head(a) # 0 THEN IntLowZeros(Head(a)) ELSE 15 + LowZeros(Tail(a))
    IN  IF m = <<>> THEN FZero
        ELSE [sg |-> sg, m |-> LShiftR(m, LowZeros(m)), e |-> e + LowZeros(m)]

\* round to nearest, ties to even, at p significant binary digits
FRoundTo(p, sg, m, e) ==
    LET RECURSIVE IntBits(_)
        IntBits(n) == IF n = 0 THEN 0 ELSE 1 + IntBits(n \div 2)
        bits == IF m = <<>> THEN 0 ELSE 15 * (Len(m) - 1) + IntBits(m[Len(m)])
        k == bits - p
        keep == LShiftR(m, k)
        rest == LSub(m, LShiftL(keep, k))
        half == LShiftL(<<1>>, k - 1)
        up == LLess(half, rest) \/ (rest = half /\ Head(keep) % 2 = 1)
    IN  IF bits <= p THEN FCanon(sg, m, e)
        ELSE FCanon(sg, IF up THEN LAdd(keep, <<1>>) ELSE keep, e + k)

\* binary64: 53 significant binary digits
FRound(sg, m, e) == FRoundTo(53, sg, m, e)

\* x + y
FAdd(x, y) ==
    IF x.m = <<>> THEN y
    ELSE IF y.m = <<>> THEN x
    ELSE LET e0 == IF x.e < y.e THEN x.e ELSE y.e
             mx == LShiftL(x.m, x.e - e0)
             my == LShiftL(y.m, y.e - e0)
         IN  IF x.sg = y.sg THEN FRound(x.sg, LAdd(mx, my), e0)
             ELSE IF LLess(mx, my) THEN FRound(y.sg, LSub(my, mx), e0)
             ELSE FRound(x.sg, LSub(mx, my), e0)

\* x - y
FSub(x, y) == FAdd(x, IF y.m = <<>> THEN y ELSE [y EXCEPT !.sg = -y.sg])

\* x * y
FMul(x, y) == FRound(x.sg * y.sg, LMul(x.m, y.m), x.e + y.e)

\* the float of the integer n
FInt(n) == FCanon(IF n < 0 THEN -1 ELSE 1, LFromInt(Abs(n)), 0)

\* n / d of two integers with 0 < d < 2^15: the quotient correctly rounded.
\* Five digits are computed after the point, and one more digit below them
\* records a non-zero remainder.
FDiv(n, d) ==
    LET RECURSIVE FracDigits(_, _)
        \* the first k digits of r / d after the point (0 <= r < d) and the
        \* remainder left: <<digits, remainder>>
        FracDigits(r, k) ==
            IF k = 0 THEN <<<<>>, r>>
            ELSE LET nxt == FracDigits((r * Base) % d, k - 1)
                 IN  <<Append(nxt[1], (r * Base) \div d), nxt[2]>>
        fr == FracDigits(Abs(n) % d, 5)
        q == fr[1] \o LFromInt(Abs(n) \div d)
        st == IF fr[2] = 0 THEN 0 ELSE 1
    IN  FRound(IF n < 0 THEN -1 ELSE 1, LNorm(<<st>> \o q), -90)

\* int(x): truncation toward zero
FTrunc(x) ==
    LET RECURSIVE ToInt(_)
        ToInt(a) == IF a = <<>> THEN 0 ELSE Head(a) + Base * ToInt(Tail(a))
    IN  IF x.e >= 0 THEN x.sg * ToInt(LShiftL(x.m, x.e))
        ELSE x.sg * ToInt(LShiftR(x.m, -x.e))

\* Python x % 1.0: fmod(x, 1.0) is exact and has the sign of x; a negative
\* non-zero remainder has the divisor added
FMod1(x) ==
    LET \* the part of |x| below the point
        fr == IF x.e >= 0 THEN FZero
              ELSE FCanon(1, LSub(x.m, LShiftL(LShiftR(x.m, -x.e), -x.e)), x.e)
    IN  IF x.sg = 1 \/ fr.m = <<>> THEN fr ELSE FAdd([fr EXCEPT !.sg = -1], FInt(1))

(* ----------------------- the gradient in binary64 ---------------------- *)
\* colorsys.hsv_to_rgb followed by int(x * 255) on each channel
hsv_to_rgb255_f64(h, s, v) ==
    LET c(x) == FTrunc(FMul(x, FInt(255)))
    IN  IF s = FZero THEN <<c(v), c(v), c(v)>>
        ELSE
        LET h6 == FMul(h, FInt(6))
            i0 == FTrunc(h6)
            f  == FSub(h6, FInt(i0))
            p  == FMul(v, FSub(FInt(1), s))
            q  == FMul(v, FSub(FInt(1), FMul(s, f)))
            t  == FMul(v, FSub(FInt(1), FMul(s, FSub(FInt(1), f))))
            i  == i0 % 6
        IN  CASE i = 0 -> <<c(v), c(t), c(p)>>
              [] i = 1 -> <<c(q), c(v), c(p)>>
              [] i = 2 -> <<c(p), c(v), c(t)>>
              [] i = 3 -> <<c(p), c(q), c(v)>>
              [] i = 4 -> <<c(t), c(p), c(v)>>
              [] i = 5 -> <<c(v), c(p), c(q)>>

\* gradient_logic.curve_t at the ends of the range: 0.0 ** x = 0.0 and
\* 1.0 ** x = 1.0 for every positive exponent x
curve_t_f64(t, curve) ==
    CASE curve = 0 -> t
      [] curve # 0 /\ t = FZero -> FZero
      [] curve # 0 /\ t = FInt(1) -> FInt(1)

\* body of the loop of calculate_gradient_colors for index i, after the
\* endpoint adjustments
GradientColorAt_f64(i, steps, h1, s1, v1, h2, s2, v2, curve) ==
    LET t == IF steps > 1 THEN FDiv(i, steps - 1) ELSE FZero
        t_curve == curve_t_f64(t, curve)
        dh == FSub(FMod1(FAdd(FSub(h2, h1), FDiv(3, 2))), FDiv(1, 2))
        h == FMod1(FAdd(h1, FMul(t_curve, dh)))
        s == FAdd(s1, FMul(t_curve, FSub(s2, s1)))
        v == FAdd(v1, FMul(t_curve, FSub(v2, v1)))
    IN  hsv_to_rgb255_f64(h, s, v)

\* the first and the last colour of gradient_logic.calculate_gradient_colors
gradient_ends_f64(steps, h1, s1, v1, h2, s2, v2, fine_shade1, fine_shade2, fine_hue2, gradient_curve, shade) ==
    LET v1a == FMul(shade, fine_shade1)
        v2a == FMul(shade, fine_shade2)
        h2a == FMod1(FAdd(h2, fine_hue2))
    IN  <<GradientColorAt_f64(0, steps, h1, s1, v1a, h2a, s2, v2a, gradient_curve),
          GradientColorAt_f64(steps - 1, steps, h1, s1, v1a, h2a, s2, v2a, gradient_curve)>>

(* ----------------------------- colour names ---------------------------- *)
\* the dictionary literal of init_color_dict, in insertion order
WebColours == <<
    <<"aliceblue", <<240, 248, 255>>>>,
    <<"antiquewhite", <<250, 235, 210>>>>,
    <<"aqua", <<0, 255, 255>>>>,
    <<"aquamarine", <<127, 255, 212>>>>,
    <<"azure", <<240, 255, 255>>>>,
    <<"beige", <<245, 245, 220>>>>,
    <<"bisque", <<255, 228, 196>>>>,
    <<"black", <<0, 0, 0>>>>,
    <<"blanchedalmond", <<255, 235, 205>>>>,
    <<"blue", <<0, 0, 255>>>>,
    <<"blueviolet", <<138, 43, 226>>>>,
    <<"brown", <<165, 42, 42>>>>,
    <<"burlywood", <<222, 184, 135>>>>,
    <<"cadetblue", <<95, 158, 160>>>>,
    <<"chartreuse", <<127, 255, 0>>>>,
    <<"chocolate", <<210, 105, 30>>>>,
    <<"coral", <<255, 127, 80>>>>,
    <<"cornflowerblue", <<100, 149, 237>>>>,
    <<"cornsilk", <<255, 248, 220>>>>,
    <<"crimson", <<220, 20, 60>>>>,
    <<"cyan", <<0, 255, 255>>>>,
    <<"darkblue", <<0, 0, 139>>>>,
    <<"darkcyan", <<0, 139, 139>>>>,
    <<"darkgoldenrod", <<184, 134, 11>>>>,
    <<"darkgray", <<169, 169, 169>>>>,
    <<"darkgreen", <<0, 100, 0>>>>,
    <<"darkkhaki", <<189, 183, 107>>>>,
    <<"darkmagenta", <<139, 0, 139>>>>,
    <<"darkolivegreen", <<85, 107, 47>>>>,
    <<"darkorange", <<255, 140, 0>>>>,
    <<"darkorchid", <<153, 50, 204>>>>,
    <<"darkred", <<139, 0, 0>>>>,
    <<"darksalmon", <<233, 150, 122>>>>,
    <<"darkseagreen", <<143, 188, 143>>>>,
    <<"darkslateblue", <<72, 61, 139>>>>,
    <<"darkslategray", <<47, 79, 79>>>>,
    <<"darkturquoise", <<0, 206, 209>>>>,
    <<"darkviolet", <<148, 0, 211>>>>,
    <<"deeppink", <<255, 20, 147>>>>,
    <<"deepskyblue", <<0, 191, 255>>>>,
    <<"dimgray", <<105, 105, 105>>>>,
    <<"dodgerblue", <<30, 144, 255>>>>,
    <<"firebrick", <<178, 34, 34>>>>,
    <<"floralwhite", <<255, 250, 240>>>>,
    <<"forestgreen", <<34, 139, 34>>>>,
    <<"fuchsia", <<255, 0, 255>>>>,
    <<"gainsboro", <<220, 220, 220>>>>,
    <<"ghostwhite", <<248, 248, 255>>>>,
    <<"gold", <<255, 215, 0>>>>,
    <<"goldenrod", <<218, 165, 32>>>>,
    <<"gray", <<128, 128, 128>>>>,
    <<"green", <<0, 128, 0>>>>,
    <<"greenyellow", <<173, 255, 47>>>>,
    <<"honeydew", <<240, 255, 240>>>>,
    <<"hotpink", <<255, 105, 180>>>>,
    <<"indianred", <<205, 92, 92>>>>,
    <<"indigo", <<75, 0, 130>>>>,
    <<"ivory", <<255, 255, 240>>>>,
    <<"khaki", <<240, 230, 140>>>>,
    <<"lavender", <<230, 230, 250>>>>,
    <<"lavenderblush", <<255, 240, 245>>>>,
    <<"lawngreen", <<124, 252, 0>>>>,
    <<"lemonchiffon", <<255, 250, 205>>>>,
    <<"lightblue", <<173, 216, 230>>>>,
    <<"lightcoral", <<240, 128, 128>>>>,
    <<"lightcyan", <<224, 255, 255>>>>,
    <<"lightgoldenrodyellow", <<250, 250, 210>>>>,
    <<"lightgray", <<211, 211, 211>>>>,
    <<"lightgreen", <<144, 238, 144>>>>,
    <<"lightpink", <<255, 182, 193>>>>,
    <<"lightsalmon", <<255, 160, 122>>>>,
    <<"lightseagreen", <<32, 178, 170>>>>,
    <<"lightskyblue", <<135, 206, 250>>>>,
    <<"lightslategray", <<119, 136, 153>>>>,
    <<"lightsteelblue", <<176, 196, 222>>>>,
    <<"lightyellow", <<255, 255, 224>>>>,
    <<"lime", <<0, 255, 0>>>>,
    <<"limegreen", <<50, 205, 50>>>>,
    <<"linen", <<250, 240, 230>>>>,
    <<"magenta", <<255, 0, 255>>>>,
    <<"maroon", <<128, 0, 0>>>>,
    <<"mediumaquamarine", <<102, 205, 170>>>>,
    <<"mediumblue", <<0, 0, 205>>>>,
    <<"mediumorchid", <<186, 85, 211>>>>,
    <<"mediumpurple", <<147, 112, 219>>>>,
    <<"mediumseagreen", <<60, 179, 113>>>>,
    <<"mediumslateblue", <<123, 104, 238>>>>,
    <<"mediumspringgreen", <<0, 250, 154>>>>,
    <<"mediumturquoise", <<72, 209, 204>>>>,
    <<"mediumvioletred", <<199, 21, 133>>>>,
    <<"midnightblue", <<25, 25, 112>>>>,
    <<"mintcream", <<245, 255, 250>>>>,
    <<"mistyrose", <<255, 228, 225>>>>,
    <<"moccasin", <<255, 228, 181>>>>,
    <<"navajowhite", <<255, 222, 173>>>>,
    <<"navy", <<0, 0, 128>>>>,
    <<"oldlace", <<253, 245, 230>>>>,
    <<"olive", <<128, 128, 0>>>>,
    <<"olivedrab", <<107, 142, 35>>>>,
    <<"orange", <<255, 165, 0>>>>,
    <<"orangered", <<255, 69, 0>>>>,
    <<"orchid", <<218, 112, 214>>>>,
    <<"palegoldenrod", <<238, 232, 170>>>>,
    <<"palegreen", <<152, 251, 152>>>>,
    <<"paleturquoise", <<175, 238, 238>>>>,
    <<"palevioletred", <<219, 112, 147>>>>,
    <<"papayawhip", <<255, 239, 213>>>>,
    <<"peachpuff", <<255, 218, 185>>>>,
    <<"peru", <<205, 133, 63>>>>,
    <<"pink", <<255, 192, 203>>>>,
    <<"plum", <<221, 160, 221>>>>,
    <<"powderblue", <<176, 224, 230>>>>,
    <<"purple", <<128, 0, 128>>>>,
    <<"rebeccapurple", <<102, 51, 153>>>>,
    <<"red", <<255, 0, 0>>>>,
    <<"rosybrown", <<188, 143, 143>>>>,
    <<"royalblue", <<65, 105, 225>>>>,
    <<"saddlebrown", <<139, 69, 19>>>>,
    <<"salmon", <<250, 128, 114>>>>,
    <<"sandybrown", <<244, 164, 96>>>>,
    <<"seagreen", <<46, 139, 87>>>>,
    <<"seashell", <<255, 245, 238>>>>,
    <<"sienna", <<160, 82, 45>>>>,
    <<"silver", <<192, 192, 192>>>>,
    <<"skyblue", <<135, 206, 235>>>>,
    <<"slateblue", <<106, 90, 205>>>>,
    <<"slategray", <<112, 128, 144>>>>,
    <<"snow", <<255, 250, 250>>>>,
    <<"springgreen", <<0, 255, 127>>>>,
    <<"steelblue", <<70, 130, 180>>>>,
    <<"tan", <<210, 180, 140>>>>,
    <<"teal", <<0, 128, 128>>>>,
    <<"thistle", <<216, 191, 216>>>>,
    <<"tomato", <<255, 99, 71>>>>,
    <<"turquoise", <<64, 224, 208>>>>,
    <<"violet", <<238, 130, 238>>>>,
    <<"wheat", <<245, 222, 179>>>>,
    <<"white", <<255, 255, 255>>>>,
    <<"whitesmoke", <<245, 245, 245>>>>,
    <<"yellow", <<255, 255, 0>>>>,
    <<"yellowgreen", <<154, 205, 50>>>>
>>

RGBOf(entry) == entry[2]
NameOf(entry) == entry[1]

\* the squared distance computed in the loop of closest_colour
Dist(c, req) ==
    (c[1] - req[1]) * (c[1] - req[1]) + (c[2] - req[2]) * (c[2] - req[2])
      + (c[3] - req[3]) * (c[3] - req[3])

\* cache with the entry rgb -> name stored (COLOR_CACHE[rgb] = name)
CacheStore(cache, rgb, name) ==
    [k \in (DOMAIN cache) \cup {rgb} |-> IF k = rgb THEN name ELSE cache[k]]

\* variant of ClosestStep: dist <= min_dist, so a later entry at the same
\* distance replaces an earlier one
ClosestStep_le(dict, req, i, st) ==
    IF st.done THEN st
    ELSE LET dist == Dist(RGBOf(dict[i]), req)
         IN  IF st.min_dist = -1 \/ dist <= st.min_dist
             THEN [min_dist |-> dist, closest_name |-> NameOf(dict[i]),
                   visited |-> i, done |-> (dist = 0)]
             ELSE [st EXCEPT !.visited = i]

\* one iteration of the for loop of closest_colour on entry i; the loop
\* state is [min_dist, closest_name, visited, done], min_dist = -1 stands
\* for float('inf') and done is set by the break
ClosestStep(dict, req, i, st) ==
    IF st.done THEN st
    ELSE LET dist == Dist(RGBOf(dict[i]), req)
         IN  IF st.min_dist = -1 \/ dist < st.min_dist
             THEN [min_dist |-> dist, closest_name |-> NameOf(dict[i]),
                   visited |-> i, done |-> (dist = 0)]
             ELSE [st EXCEPT !.visited = i]

\* the iterations lo..hi of that loop, in order
RECURSIVE ClosestLoop(_, _, _, _, _)
ClosestLoop(dict, req, lo, hi, st) ==
    IF lo > hi THEN st
    ELSE IF lo = hi THEN ClosestStep(dict, req, lo, st)
    ELSE LET mid == (lo + hi) \div 2
             left == ClosestLoop(dict, req, lo, mid, st)
         IN  IF left.done THEN left ELSE ClosestLoop(dict, req, mid + 1, hi, left)

\* the whole loop: <<closest_name, entries visited>>
ClosestScan(dict, req) ==
    LET st == ClosestLoop(dict, req, 1, Len(dict),
                  [min_dist |-> -1, closest_name |-> "unknown", visited |-> 0, done |-> FALSE])
    IN  <<st.closest_name, st.visited>>

\* variant of closest_colour: no cache check before the scan
closest_colour_nocheck(requested_colour, dict, cache) ==
    LET r == ClosestScan(dict, requested_colour)
    IN  [name |-> r[1], cache |-> CacheStore(cache, requested_colour, r[1]),
         hit |-> FALSE, visited |-> r[2]]

\* color_utils.closest_colour: the name returned, the cache afterwards,
\* whether the cache answered and how many table entries were visited
closest_colour(requested_colour, dict, cache) ==
    IF requested_colour \in DOMAIN cache
    THEN [name |-> cache[requested_colour], cache |-> cache, hit |-> TRUE, visited |-> 0]
    ELSE LET r == ClosestScan(dict, requested_colour)
         IN  [name |-> r[1], cache |-> CacheStore(cache, requested_colour, r[1]),
              hit |-> FALSE, visited |-> r[2]]

\* the exact-match loop of get_colour_name over the entries lo..hi, in
\* order: found is the index of the entry that returned, 0 while none has
RECURSIVE ExactLoop(_, _, _, _, _)
ExactLoop(dict, rgb, lo, hi, found) ==
    IF lo > hi \/ found # 0 THEN found
    ELSE IF lo = hi THEN (IF RGBOf(dict[lo]) = rgb THEN lo ELSE 0)
    ELSE LET mid == (lo + hi) \div 2
             left == ExactLoop(dict, rgb, lo, mid, found)
         IN  IF left # 0 THEN left ELSE ExactLoop(dict, rgb, mid + 1, hi, left)

\* variant of ExactScan: the last entry with that RGB instead of the first
ExactScan_last(dict, rgb) ==
    LET m == { i \in 1..Len(dict) : RGBOf(dict[i]) = rgb }
    IN  IF m = {} THEN 0 ELSE CHOOSE i \in m : \A j \in m : j <= i

ExactScan(dict, rgb) == ExactLoop(dict, rgb, 1, Len(dict), 0)

\* color_utils.get_colour_name
get_colour_name(rgb, dict, cache) ==
    IF rgb \in DOMAIN cache
    THEN [name |-> cache[rgb], cache |-> cache, hit |-> TRUE, visited |-> 0]
    ELSE LET m == ExactScan(dict, rgb)
         IN  IF m # 0
             THEN [name |-> NameOf(dict[m]), cache |-> CacheStore(cache, rgb, NameOf(dict[m])),
                   hit |-> FALSE, visited |-> m]
             ELSE LET c == closest_colour(rgb, dict, cache)
                  IN  [c EXCEPT !.visited = Len(dict) + c.visited]

\* the empty dict literal
EmptyCache == [k \in {} |-> "unknown"]

(* -------------------------- optional values ---------------------------- *)
\* Python None and a present value
None == <<>>
Some(x) == <<x>>
Val(o) == o[1]

(* ------------------- wheel_generator.quantize_array -------------------- *)
\* quantize_array without the single-level branch: levels <= 1 keeps the array
quantize_array_keep(arr, levels) ==
    LET RECURSIVE Digit(_, _, _, _), DivMod(_, _)
        \* a \div b for a < b * 2^15, one binary digit at a time
        Digit(a, b, bit, acc) ==
            IF bit < 0 THEN acc
            ELSE IF LLess(a, LMulSmall(b, acc + IPow(2, bit), 0)) THEN Digit(a, b, bit - 1, acc)
            ELSE Digit(a, b, bit - 1, acc + IPow(2, bit))
        \* <<a \div b, a % b>> for b > 0, one digit of a at a time
        DivMod(a, b) ==
            IF a = <<>> THEN <<<<>>, <<>>>>
            ELSE LET hi == DivMod(Tail(a), b)
                     cur == LNorm(<<Head(a)>> \o hi[2])
                     d == Digit(cur, b, 14, 0)
                 IN  <<<<d>> \o hi[1], LSub(cur, LMulSmall(b, d, 0))>>
        step == FDiv(255, Val(levels) - 1)
        step32 == FRoundTo(24, step.sg, step.m, step.e)
        \* float32(x) / step32: 52 binary digits of the quotient after the
        \* point, and one digit below them that records a remainder
        Quot(x) ==
            LET dm == DivMod(LShiftL(LFromInt(x), 52), step32.m)
                st == IF dm[2] = <<>> THEN 0 ELSE 1
            IN  IF x = 0 THEN FZero
                ELSE FRoundTo(24, 1, LNorm(<<st>> \o dm[1]), -52 - step32.e - 15)
        \* np.round of a non-negative float
        Rint(q) ==
            LET k == FTrunc(q)
                fr == FSub(q, FInt(k))
                twice == FSub(FAdd(fr, fr), FInt(1))
            IN  IF twice.m = <<>> THEN (IF k % 2 = 0 THEN k ELSE k + 1)
                ELSE IF twice.sg = 1 THEN k + 1 ELSE k
        Quantized(x) == FRoundTo(24, 1, LMul(LFromInt(Rint(Quot(x))), step32.m), step32.e)
        \* np.clip(quantized, 0, 255).astype(np.uint8)
        Clip(y) == IF y.sg = -1 THEN 0 ELSE IF FTrunc(y) >= 255 THEN 255 ELSE FTrunc(y)
    IN  IF levels = None \/ Val(levels) >= 256 THEN arr
        ELSE IF Val(levels) <= 1 THEN arr
        ELSE [i \in 1..Len(arr) |-> Clip(Quantized(arr[i]))]

\* arr is the flattened uint8 array and levels is None or Some(n).
\* step is a Python float (binary64); arr.astype(np.float32) / step and
\* np.round(...) * step are float32 operations on the float32 value of
\* step (24 significant binary digits); np.round rounds halves to even;
\* astype(np.uint8) truncates.
quantize_array(arr, levels) ==
    LET RECURSIVE Digit(_, _, _, _), DivMod(_, _)
        \* a \div b for a < b * 2^15, one binary digit at a time
        Digit(a, b, bit, acc) ==
            IF bit < 0 THEN acc
            ELSE IF LLess(a, LMulSmall(b, acc + IPow(2, bit), 0)) THEN Digit(a, b, bit - 1, acc)
            ELSE Digit(a, b, bit - 1, acc + IPow(2, bit))
        \* <<a \div b, a % b>> for b > 0, one digit of a at a time
        DivMod(a, b) ==
            IF a = <<>> THEN <<<<>>, <<>>>>
            ELSE LET hi == DivMod(Tail(a), b)
                     cur == LNorm(<<Head(a)>> \o hi[2])
                     d == Digit(cur, b, 14, 0)
                 IN  <<<<d>> \o hi[1], LSub(cur, LMulSmall(b, d, 0))>>
        step == FDiv(255, Val(levels) - 1)
        step32 == FRoundTo(24, step.sg, step.m, step.e)
        \* float32(x) / step32: 52 binary digits of the quotient after the
        \* point, and one digit below them that records a remainder
        Quot(x) ==
            LET dm == DivMod(LShiftL(LFromInt(x), 52), step32.m)
                st == IF dm[2] = <<>> THEN 0 ELSE 1
            IN  IF x = 0 THEN FZero
                ELSE FRoundTo(24, 1, LNorm(<<st>> \o dm[1]), -52 - step32.e - 15)
        \* np.round of a non-negative float
        Rint(q) ==
            LET k == FTrunc(q)
                fr == FSub(q, FInt(k))
                twice == FSub(FAdd(fr, fr), FInt(1))
            IN  IF twice.m = <<>> THEN (IF k % 2 = 0 THEN k ELSE k + 1)
                ELSE IF twice.sg = 1 THEN k + 1 ELSE k
        Quantized(x) == FRoundTo(24, 1, LMul(LFromInt(Rint(Quot(x))), step32.m), step32.e)
        \* np.clip(quantized, 0, 255).astype(np.uint8)
        Clip(y) == IF y.sg = -1 THEN 0 ELSE IF FTrunc(y) >= 255 THEN 255 ELSE FTrunc(y)
    IN  IF levels = None \/ Val(levels) >= 256 THEN arr
        ELSE IF Val(levels) <= 1 THEN [i \in 1..Len(arr) |-> 128]
        ELSE [i \in 1..Len(arr) |-> Clip(Quantized(arr[i]))]

\* a quarter turn instead of a half turn
calculate_opposite_hue_quarter(h) == FMod1(FAdd(h, FDiv(1, 4)))

\* color_utils.calculate_opposite_hue on a binary64 hue: (h + 0.5) % 1.0
calculate_opposite_hue(h) == FMod1(FAdd(h, FDiv(1, 2)))

(* ------------------------ export_palette.py ----------------------------- *)
\* get_colour_name applied to colors[i..], in order, each lookup seeing the
\* cache left by the one before: <<names, cache afterwards>>
RECURSIVE NameEach(_, _, _, _)
NameEach(colors, i, dict, cache) ==
    IF i > Len(colors) THEN <<<<>>, cache>>
    ELSE LET r == get_colour_name(colors[i], dict, cache)
             tl == NameEach(colors, i + 1, dict, r.cache)
         IN  <<<<r.name>> \o tl[1], tl[2]>>

\* the curve_t nested in export_palette.export_palette
Export_curve_t(t, curve) ==
    IF curve = 0 THEN t
    ELSE IF curve > 0 THEN RRoot(t, CurveExp(curve))
    ELSE RPow(t, CurveExp(curve))

\* the endpoints and loop of export_palette.export_palette: the RGB
\* written on each colour line
export_palette_colors(gradient_steps, gradient_curve, fine_shade1, fine_shade2, fine_hue2, shade, hue_shift, selected_h, selected_s, selected_v, selected_opp_h) ==
    LET steps == gradient_steps
        sel == selected_h # None /\ selected_s # None /\ selected_v # None
        h1 == IF sel THEN Val(selected_h) ELSE RMod1(RAdd(Zero, hue_shift))
        s1 == IF sel THEN Val(selected_s) ELSE One
        v1 == IF sel THEN Val(selected_v) ELSE shade
        h2 == IF sel THEN Val(selected_opp_h) ELSE RMod1(RAdd(h1, Half))
        s2 == IF sel THEN Val(selected_s) ELSE One
        v2 == IF sel THEN Val(selected_v) ELSE shade
        v1a == RMul(v1, fine_shade1)
        v2a == RMul(v2, fine_shade2)
        h2a == RMod1(RAdd(h2, fine_hue2))
        col(i) ==
            LET t == IF steps > 1 THEN Rat(i, steps - 1) ELSE Zero
                t_curve == Export_curve_t(t, gradient_curve)
                dh == RSub(RMod1(RAdd(RSub(h2a, h1), Rat(3, 2))), Half)
                h == RMod1(RAdd(h1, RMul(t_curve, dh)))
                s == RAdd(s1, RMul(t_curve, RSub(s2, s1)))
                v == RAdd(v1a, RMul(t_curve, RSub(v2a, v1a)))
            IN  hsv_to_rgb255(h, s, v)
    IN  [i \in 1..steps |-> col(i - 1)]

\* a path is the sequence of its characters; NoPath is the empty string the
\* dialog returns on cancel
NoPath == <<>>
Paths ==
    { NoPath,
      <<"/", "t", "m", "p", "/", "m", "y", "p", "a", "l", "e", "t", "t", "e", ".", "g", "p", "l">> }

\* position of the last occurrence of character c in s, 0 when there is none
LastIndexOf(s, c) ==
    IF \E i \in 1..Len(s) : s[i] = c
    THEN CHOOSE i \in 1..Len(s) : s[i] = c /\ \A j \in (i + 1)..Len(s) : s[j] # c
    ELSE 0
\* os.path.basename
basename(path) == SubSeq(path, LastIndexOf(path, "/") + 1, Len(path))
\* os.path.splitext(name)[0] for a name without separator: the last dot
\* starts the extension unless only dots precede it
splitext_root(name) ==
    LET dot == LastIndexOf(name, ".")
    IN  IF dot > 0 /\ \E k \in 1..(dot - 1) : name[k] # "."
        THEN SubSeq(name, 1, dot - 1)
        ELSE name
\* os.path.splitext(os.path.basename(file_path))[0]
PaletteName(file_path) == splitext_root(basename(file_path))

RECURSIVE DecimalDigits(_)
DecimalDigits(n) ==
    LET digit == <<"0", "1", "2", "3", "4", "5", "6", "7", "8", "9">>[(n % 10) + 1]
    IN  IF n < 10 THEN <<digit>> ELSE Append(DecimalDigits(n \div 10), digit)

\* variant of Format3d: no padding
Format3d_nopad(n) ==
    IF n < 0 THEN <<"-">> \o DecimalDigits(-n) ELSE DecimalDigits(n)

\* format(n, "3d"): decimal, right-aligned with spaces to width 3
Format3d(n) ==
    LET text == IF n < 0 THEN <<"-">> \o DecimalDigits(-n) ELSE DecimalDigits(n)
    IN  [k \in 1..(3 - Len(text)) |-> " "] \o text

\* the text export_palette writes for the colours and names of its loop
PaletteText(palette_name, rgbs, names) ==
    LET \* the line of colour rgb; the colour name is one element of the sequence
        ColourLine(rgb, name) ==
            Format3d(rgb[1]) \o <<" ">> \o Format3d(rgb[2]) \o <<" ">> \o Format3d(rgb[3])
                \o <<" ", name>>
        \* the lines list before the loop; fixed texts are one element each
        HeaderLines == << <<"GIMP Palette">>, <<"Name: ">> \o palette_name, <<"#">> >>
        \* "\n".join(lines)
        RECURSIVE JoinLines(_)
        JoinLines(lines) ==
            IF lines = <<>> THEN <<>>
            ELSE IF Len(lines) = 1 THEN lines[1]
            ELSE lines[1] \o <<"\n">> \o JoinLines(Tail(lines))
    IN  JoinLines(HeaderLines \o [i \in 1..Len(rgbs) |-> ColourLine(rgbs[i], names[i])])

\* the file no export has written; selected tells whether the caller of
\* the export passed a selected colour
NoFile ==
    [written |-> FALSE, path |-> NoPath, name |-> <<>>, rgbs |-> <<>>, names |-> <<>>,
     text |-> <<>>, selected |-> FALSE]

(* --------------------- ColourPicker.py: ColourWheelApp ----------------- *)
\* value the "Gradient Steps" slider is set to at construction
DefaultSteps == 20

\* ColourWheelApp.curve_t
App_curve_t(t, curve) ==
    IF curve = 0 THEN t
    ELSE IF curve > 0 THEN RRoot(t, CurveExp(curve))
    ELSE RPow(t, CurveExp(curve))

\* The application state is a record w: the attributes of the
\* ColourWheelApp object, the Tk timer queue (tk_after: ids of the pending
\* `after` callbacks, tk_seq: last id handed out), the keys of the module's
\* COLOR_CACHE (cache) and the palette file (file).  The names stored in
\* the cache come from matplotlib's colour table, which is outside the
\* repository; the readout text and the file are modelled by their RGBs.
NoText == [shown |-> FALSE, rgb |-> <<0, 0, 0>>, opp_rgb |-> <<0, 0, 0>>]

Selected(w) == w.selected_h # None /\ w.selected_s # None /\ w.selected_v # None

\* populate_squares: the colours of the squares it creates
populate_colors(w) ==
    LET steps == w.gradient_steps
        sel == Selected(w)
        h1 == IF sel THEN Val(w.selected_h) ELSE RMod1(RAdd(Zero, w.hue_shift))
        s1 == IF sel THEN Val(w.selected_s) ELSE One
        h2 == IF sel THEN Val(w.selected_opp_h) ELSE RMod1(RAdd(h1, Half))
        s2 == IF sel THEN Val(w.selected_s) ELSE One
        v1 == RMul(w.shade, w.fine_shade1)
        v2 == RMul(w.shade, w.fine_shade2)
        h2a == RMod1(RAdd(h2, w.fine_hue2))
        col(i) ==
            LET t == IF steps > 1 THEN Rat(i, steps - 1) ELSE Zero
                t_curve == App_curve_t(t, w.gradient_curve)
                dh == RSub(RMod1(RAdd(RSub(h2a, h1), Rat(3, 2))), Half)
                h == RMod1(RAdd(h1, RMul(t_curve, dh)))
                s == RAdd(s1, RMul(t_curve, RSub(s2, s1)))
                v == RAdd(v1, RMul(t_curve, RSub(v2, v1)))
            IN  hsv_to_rgb255(h, s, v)
    IN  [i \in 1..steps |-> col(i - 1)]

\* ColourWheelApp.populate_squares
populate_squares(w) == [w EXCEPT !.squares = populate_colors(w)]

\* variant of hover_hsv: divisor steps instead of steps - 1
hover_hsv_nominus(w, idx) ==
    LET steps == w.gradient_steps
        sel == Selected(w)
        h1 == IF sel THEN Val(w.selected_h) ELSE RMod1(RAdd(Zero, w.hue_shift))
        s1 == IF sel THEN Val(w.selected_s) ELSE One
        h2 == IF sel THEN Val(w.selected_opp_h) ELSE RMod1(RAdd(h1, Half))
        s2 == IF sel THEN Val(w.selected_s) ELSE One
        v1 == RMul(w.shade, w.fine_shade1)
        v2 == RMul(w.shade, w.fine_shade2)
        h2a == RMod1(RAdd(h2, w.fine_hue2))
        t == IF steps > 1 THEN Rat(idx, steps) ELSE Zero
        t_curve == App_curve_t(t, w.gradient_curve)
        dh == RSub(RMod1(RAdd(RSub(h2a, h1), Rat(3, 2))), Half)
    IN  [h |-> RMod1(RAdd(h1, RMul(t_curve, dh))),
         s |-> RAdd(s1, RMul(t_curve, RSub(s2, s1))),
         v |-> RAdd(v1, RMul(t_curve, RSub(v2, v1)))]

\* on_square_hover: the h, s, v it computes for square idx
hover_hsv(w, idx) ==
    LET steps == w.gradient_steps
        sel == Selected(w)
        h1 == IF sel THEN Val(w.selected_h) ELSE RMod1(RAdd(Zero, w.hue_shift))
        s1 == IF sel THEN Val(w.selected_s) ELSE One
        h2 == IF sel THEN Val(w.selected_opp_h) ELSE RMod1(RAdd(h1, Half))
        s2 == IF sel THEN Val(w.selected_s) ELSE One
        v1 == RMul(w.shade, w.fine_shade1)
        v2 == RMul(w.shade, w.fine_shade2)
        h2a == RMod1(RAdd(h2, w.fine_hue2))
        t == IF steps > 1 THEN Rat(idx, steps - 1) ELSE Zero
        t_curve == App_curve_t(t, w.gradient_curve)
        dh == RSub(RMod1(RAdd(RSub(h2a, h1), Rat(3, 2))), Half)
    IN  [h |-> RMod1(RAdd(h1, RMul(t_curve, dh))),
         s |-> RAdd(s1, RMul(t_curve, RSub(s2, s1))),
         v |-> RAdd(v1, RMul(t_curve, RSub(v2, v1)))]

\* on_square_hover: the primary colour it reports for square idx
hover_color(w, idx) ==
    LET c == hover_hsv(w, idx) IN hsv_to_rgb255(c.h, c.s, c.v)

\* variant of on_square_hover: a lock on the wheel does not stop it
on_square_hover_unlocked(w, idx) ==
    IF FALSE THEN w
    ELSE LET c == hover_hsv(w, idx)
             rgb == hsv_to_rgb255(c.h, c.s, c.v)
             opp_h == RMod1(RAdd(c.h, Half))
             opp_rgb == hsv_to_rgb255(opp_h, c.s, c.v)
         IN  [w EXCEPT !.has_hovered = TRUE,
                       !.hovered_square_idx = Some(idx),
                       !.cache = @ \cup {rgb, opp_rgb},
                       !.text = [shown |-> TRUE, rgb |-> rgb, opp_rgb |-> opp_rgb],
                       !.last_panel = "squares",
                       !.last_square_idx = Some(idx)]

\* ColourWheelApp.on_square_hover
on_square_hover(w, idx) ==
    IF w.locked /\ w.last_panel = "wheel" THEN w
    ELSE LET c == hover_hsv(w, idx)
             rgb == hsv_to_rgb255(c.h, c.s, c.v)
             opp_h == RMod1(RAdd(c.h, Half))
             opp_rgb == hsv_to_rgb255(opp_h, c.s, c.v)
         IN  [w EXCEPT !.has_hovered = TRUE,
                       !.hovered_square_idx = Some(idx),
                       !.cache = @ \cup {rgb, opp_rgb},
                       !.text = [shown |-> TRUE, rgb |-> rgb, opp_rgb |-> opp_rgb],
                       !.last_panel = "squares",
                       !.last_square_idx = Some(idx)]

\* variant of schedule_populate_squares: the outstanding timer is not cancelled
schedule_populate_squares_nocancel(w) ==
    LET id == w.tk_seq + 1
    IN  [w EXCEPT !.tk_after = @ \cup {id},
                  !.tk_seq = id,
                  !.populate_timer = Some(id)]

\* ColourWheelApp.schedule_populate_squares
schedule_populate_squares(w) ==
    LET cancelled == IF w.populate_timer # None
                     THEN w.tk_after \ {Val(w.populate_timer)}
                     ELSE w.tk_after
        id == w.tk_seq + 1
    IN  [w EXCEPT !.tk_after = cancelled \cup {id},
                  !.tk_seq = id,
                  !.populate_timer = Some(id)]

\* a pointer position on the canvas: inside the wheel at the given angle
\* and relative radius r / radius, or outside it
NoEventPos == [inside |-> FALSE, angle |-> Zero, s |-> Zero]

\* variant of on_mouse_move: the opposite hue of the selection is not stored
on_mouse_move_noopp(w, event) ==
    LET w1 == [w EXCEPT !.last_event = Some(event),
                        !.has_hovered = TRUE,
                        !.hovered_square_idx = None]
    IN  IF w1.locked /\ w1.last_panel = "squares" THEN w1
        ELSE IF w1.locked /\ w1.last_panel = "wheel" THEN w1
        ELSE IF event.inside
        THEN LET shifted_angle == RMod1(RAdd(event.angle, w1.hue_shift))
                 s == event.s
                 v == w1.shade
                 rgb == hsv_to_rgb255(shifted_angle, s, v)
                 opp_angle == RMod1(RAdd(shifted_angle, Half))
                 opp_rgb == hsv_to_rgb255(opp_angle, s, v)
             IN  schedule_populate_squares(
                   [w1 EXCEPT !.cache = @ \cup {rgb, opp_rgb},
                              !.text = [shown |-> TRUE, rgb |-> rgb, opp_rgb |-> opp_rgb],
                              !.last_panel = "wheel",
                              !.last_square_idx = None,
                              !.selected_h = Some(shifted_angle),
                              !.selected_s = Some(s),
                              !.selected_v = Some(v),
                              !.selected_rgb = Some(rgb),
                              !.selected_opp_rgb = Some(opp_rgb)])
        ELSE [w1 EXCEPT !.text = NoText]

\* ColourWheelApp.on_mouse_move
on_mouse_move(w, event) ==
    LET w1 == [w EXCEPT !.last_event = Some(event),
                        !.has_hovered = TRUE,
                        !.hovered_square_idx = None]
    IN  IF w1.locked /\ w1.last_panel = "squares" THEN w1
        ELSE IF w1.locked /\ w1.last_panel = "wheel" THEN w1
        ELSE IF event.inside
        THEN LET shifted_angle == RMod1(RAdd(event.angle, w1.hue_shift))
                 s == event.s
                 v == w1.shade
                 rgb == hsv_to_rgb255(shifted_angle, s, v)
                 opp_angle == RMod1(RAdd(shifted_angle, Half))
                 opp_rgb == hsv_to_rgb255(opp_angle, s, v)
             IN  schedule_populate_squares(
                   [w1 EXCEPT !.cache = @ \cup {rgb, opp_rgb},
                              !.text = [shown |-> TRUE, rgb |-> rgb, opp_rgb |-> opp_rgb],
                              !.last_panel = "wheel",
                              !.last_square_idx = None,
                              !.selected_h = Some(shifted_angle),
                              !.selected_s = Some(s),
                              !.selected_v = Some(v),
                              !.selected_rgb = Some(rgb),
                              !.selected_opp_h = Some(opp_angle),
                              !.selected_opp_rgb = Some(opp_rgb)])
        ELSE [w1 EXCEPT !.text = NoText]

\* ColourWheelApp.on_slider, the hue and shade sliders reading hue (in
\* turns, i.e. degrees / 360) and shade (percent / 100)
on_slider(w, hue, shade) ==
    LET w1 == schedule_populate_squares([w EXCEPT !.hue_shift = hue, !.shade = shade])
        w2 == IF w1.last_event # None /\ w1.last_panel = "wheel"
              THEN on_mouse_move(w1, Val(w1.last_event))
              ELSE IF w1.last_square_idx # None /\ w1.last_panel = "squares"
              THEN on_square_hover(w1, Val(w1.last_square_idx))
              ELSE w1
    IN  [w2 EXCEPT !.selected_h = None, !.selected_s = None, !.selected_v = None,
                   !.selected_rgb = None, !.selected_opp_h = None,
                   !.selected_opp_rgb = None]

\* the refresh the three gradient slider handlers end with
RefreshLockedSquare(w) ==
    IF w.locked /\ w.last_panel = "squares" /\ w.last_square_idx # None
    THEN on_square_hover(w, Val(w.last_square_idx))
    ELSE w

\* ColourWheelApp.on_interval_slider
on_interval_slider(w, steps) ==
    RefreshLockedSquare(schedule_populate_squares([w EXCEPT !.gradient_steps = steps]))

\* variant of on_curve_slider: populate_squares is not scheduled
on_curve_slider_noschedule(w, curve) ==
    RefreshLockedSquare([w EXCEPT !.gradient_curve = curve])

\* ColourWheelApp.on_curve_slider
on_curve_slider(w, curve) ==
    RefreshLockedSquare(schedule_populate_squares([w EXCEPT !.gradient_curve = curve]))

\* ColourWheelApp.on_fine_slider
on_fine_slider(w, fine_shade1, fine_shade2, fine_hue2) ==
    RefreshLockedSquare(schedule_populate_squares(
        [w EXCEPT !.fine_shade1 = fine_shade1, !.fine_shade2 = fine_shade2,
                  !.fine_hue2 = fine_hue2]))

\* ColourWheelApp.toggle_lock
toggle_lock(w) ==
    IF w.has_hovered /\ w.hovered_square_idx # None
    THEN IF ~w.locked
         THEN [w EXCEPT !.locked = TRUE, !.last_panel = "squares",
                        !.last_square_idx = w.hovered_square_idx]
         ELSE [w EXCEPT !.locked = FALSE, !.last_panel = "wheel", !.last_square_idx = None]
    ELSE IF ~w.locked
         THEN [w EXCEPT !.locked = TRUE, !.last_panel = "wheel"]
         ELSE [w EXCEPT !.locked = FALSE, !.last_panel = "wheel", !.last_square_idx = None]

\* ColourWheelApp.on_square_click
on_square_click(w, idx) ==
    IF w.locked /\ w.last_panel = "squares" /\ w.last_square_idx = Some(idx)
    THEN [w EXCEPT !.locked = FALSE, !.last_panel = "wheel", !.last_square_idx = None]
    ELSE on_square_hover([w EXCEPT !.locked = TRUE, !.last_panel = "squares",
                                   !.last_square_idx = Some(idx)], idx)

\* variant of export_colors: the global shade is not applied
export_colors_noshade(w) ==
    LET steps == w.gradient_steps
        sel == Selected(w)
        h1 == IF sel THEN Val(w.selected_h) ELSE RMod1(RAdd(Zero, w.hue_shift))
        s1 == IF sel THEN Val(w.selected_s) ELSE One
        h2 == IF sel THEN Val(w.selected_opp_h) ELSE RMod1(RAdd(h1, Half))
        s2 == IF sel THEN Val(w.selected_s) ELSE One
        v1 == w.fine_shade1
        v2 == w.fine_shade2
        h2a == RMod1(RAdd(h2, w.fine_hue2))
        col(i) ==
            LET t == IF steps > 1 THEN Rat(i, steps - 1) ELSE Zero
                t_curve == App_curve_t(t, w.gradient_curve)
                dh == RSub(RMod1(RAdd(RSub(h2a, h1), Rat(3, 2))), Half)
                h == RMod1(RAdd(h1, RMul(t_curve, dh)))
                s == RAdd(s1, RMul(t_curve, RSub(s2, s1)))
                v == RAdd(v1, RMul(t_curve, RSub(v2, v1)))
            IN  hsv_to_rgb255(h, s, v)
    IN  [i \in 1..steps |-> col(i - 1)]

\* ColourWheelApp.export_palette: the RGB written on each colour line
export_colors(w) ==
    LET steps == w.gradient_steps
        sel == Selected(w)
        h1 == IF sel THEN Val(w.selected_h) ELSE RMod1(RAdd(Zero, w.hue_shift))
        s1 == IF sel THEN Val(w.selected_s) ELSE One
        h2 == IF sel THEN Val(w.selected_opp_h) ELSE RMod1(RAdd(h1, Half))
        s2 == IF sel THEN Val(w.selected_s) ELSE One
        v1 == RMul(w.shade, w.fine_shade1)
        v2 == RMul(w.shade, w.fine_shade2)
        h2a == RMod1(RAdd(h2, w.fine_hue2))
        col(i) ==
            LET t == IF steps > 1 THEN Rat(i, steps - 1) ELSE Zero
                t_curve == App_curve_t(t, w.gradient_curve)
                dh == RSub(RMod1(RAdd(RSub(h2a, h1), Rat(3, 2))), Half)
                h == RMod1(RAdd(h1, RMul(t_curve, dh)))
                s == RAdd(s1, RMul(t_curve, RSub(s2, s1)))
                v == RAdd(v1, RMul(t_curve, RSub(v2, v1)))
            IN  hsv_to_rgb255(h, s, v)
    IN  [i \in 1..steps |-> col(i - 1)]

\* variant of export_palette: no early return on an empty path
export_palette_nocancel(w, file_path) ==
    LET rgbs == export_colors(w)
    IN  [w EXCEPT !.cache = @ \cup { rgbs[i] : i \in 1..Len(rgbs) },
                  !.file = [written |-> TRUE, name |-> PaletteName(file_path),
                            rgbs |-> rgbs]]

\* ColourWheelApp.export_palette with the dialog returning file_path
export_palette(w, file_path) ==
    IF file_path = NoPath THEN w
    ELSE LET rgbs == export_colors(w)
         IN  [w EXCEPT !.cache = @ \cup { rgbs[i] : i \in 1..Len(rgbs) },
                       !.file = [written |-> TRUE, name |-> PaletteName(file_path),
                                 rgbs |-> rgbs]]

\* ColourWheelApp.__init__ up to and including its call of populate_squares
NewApp ==
    populate_squares(
        [hue_shift |-> Zero, shade |-> One, locked |-> FALSE, last_event |-> None,
         last_panel |-> "wheel", last_square_idx |-> None,
         has_hovered |-> FALSE, hovered_square_idx |-> None,
         squares |-> <<>>, gradient_steps |-> DefaultSteps,
         selected_h |-> None, selected_s |-> None, selected_v |-> None,
         selected_rgb |-> None, selected_opp_h |-> None, selected_opp_rgb |-> None,
         gradient_curve |-> 0, fine_shade1 |-> One, fine_shade2 |-> One,
         fine_hue2 |-> Zero, populate_timer |-> None, text |-> NoText,
         tk_after |-> {}, tk_seq |-> 0, cache |-> {},
         file |-> [written |-> FALSE, name |-> <<>>, rgbs |-> <<>>]])

(* ------------------------- hex colour strings -------------------------- *)
\* a string is the sequence of its characters
LowerDigits == <<"0", "1", "2", "3", "4", "5", "6", "7", "8", "9", "a", "b", "c", "d", "e", "f">>
UpperDigits == <<"0", "1", "2", "3", "4", "5", "6", "7", "8", "9", "A", "B", "C", "D", "E", "F">>

IsHexChar(c) == \E i \in 1..16 : LowerDigits[i] = c \/ UpperDigits[i] = c
HexVal(c) == (CHOOSE i \in 1..16 : LowerDigits[i] = c \/ UpperDigits[i] = c) - 1

\* str.strip()
strip(s) ==
    LET IsSpace(c) == c \in {" ", "\t", "\n"}
        RECURSIVE lstrip(_), rstrip(_)
        lstrip(x) == IF x # <<>> /\ IsSpace(x[1]) THEN lstrip(Tail(x)) ELSE x
        rstrip(x) ==
            IF x # <<>> /\ IsSpace(x[Len(x)]) THEN rstrip(SubSeq(x, 1, Len(x) - 1)) ELSE x
    IN  rstrip(lstrip(s))

\* int(s, 16) on strings of hex digits, signs and whitespace: surrounding
\* whitespace is skipped, one sign is accepted, at least one digit must follow;
\* ok = FALSE stands for ValueError
int16(s) ==
    LET RECURSIVE DigitsValue(_, _)
        DigitsValue(x, acc) ==
            IF x = <<>> THEN acc ELSE DigitsValue(Tail(x), 16 * acc + HexVal(x[1]))
        t == strip(s)
        signed == t # <<>> /\ t[1] \in {"+", "-"}
        digits == IF signed THEN Tail(t) ELSE t
        ok == digits # <<>> /\ \A i \in 1..Len(digits) : IsHexChar(digits[i])
        magnitude == IF ok THEN DigitsValue(digits, 0) ELSE 0
    IN  [ok |-> ok, val |-> IF signed /\ t[1] = "-" THEN -magnitude ELSE magnitude]

\* color_utils.hex_to_rgb: None, or the triple in a one-element sequence
hex_to_rgb(hex_str) ==
    LET stripped == strip(hex_str)
        body == IF stripped # <<>> /\ stripped[1] = "#" THEN Tail(stripped) ELSE stripped
    IN  IF Len(body) # 6 THEN None
        ELSE LET r == int16(SubSeq(body, 1, 2))
                 g == int16(SubSeq(body, 3, 4))
                 b == int16(SubSeq(body, 5, 6))
             IN  IF r.ok /\ g.ok /\ b.ok THEN Some(<<r.val, g.val, b.val>>) ELSE None

RECURSIVE HexDigitsOf(_)
HexDigitsOf(n) ==
    IF n < 16 THEN <<LowerDigits[n + 1]>>
    ELSE Append(HexDigitsOf(n \div 16), LowerDigits[(n % 16) + 1])

\* variant of Format02x: no zero padding
Format02x_nopad(n) ==
    IF n < 0 THEN <<"-">> \o HexDigitsOf(-n) ELSE HexDigitsOf(n)

\* '%02x' % n
Format02x(n) ==
    LET text == IF n < 0 THEN <<"-">> \o HexDigitsOf(-n) ELSE HexDigitsOf(n)
    IN  IF Len(text) < 2 THEN <<"0">> \o text ELSE text

\* color_utils.rgb_to_hex
rgb_to_hex(rgb) == <<"#">> \o Format02x(rgb[1]) \o Format02x(rgb[2]) \o Format02x(rgb[3])

\* str.upper() on the characters of a hex string
Upper(s) ==
    LET UpperChar(c) ==
            IF \E i \in 1..16 : LowerDigits[i] = c
            THEN UpperDigits[CHOOSE i \in 1..16 : LowerDigits[i] = c]
            ELSE c
    IN  [i \in 1..Len(s) |-> UpperChar(s[i])]

(* ------------------------------- state --------------------------------- *)
VARIABLES
    colour_dict,   \* color_utils._colour_dict, as a sequence in insertion order
    COLOR_CACHE,   \* color_utils.COLOR_CACHE
    pool,          \* the RGB triples the client looks up in this run
    call,          \* the most recent color_utils call and what it returned
    ncalls,        \* number of color_utils calls made so far
    dict_obj,      \* identity of the dict object the global _colour_dict is bound to
    heap,          \* the dict objects created so far: object k has contents heap[k + 1]
    client,        \* check_color_utils.analyze_color_dict: position, imported binding, output
    g_in,          \* arguments of the gradient functions in this run
    g_colors,      \* list returned by calculate_gradient_colors, None before
    g_names,       \* get_colour_name of each returned colour, None before
    g_file,        \* the palette file written by export_palette.export_palette
    g_pc,          \* position of the gradient client
    app,           \* the ColourWheelApp object and its environment
    last_op,       \* the handler that ran last
    nevents,       \* number of UI events handled so far
    tk_pending,    \* the `after` callbacks Tk holds: app.tk_after, as a variable of its own
    hex_str,       \* the argument of the hex_to_rgb call
    hex_rgb,       \* what hex_to_rgb returned
    rt_rgb,        \* the triple the round-trip client formats
    rt_hex,        \* what rgb_to_hex returned for it
    hex_pc,        \* position of the hex conversion client
    f_in,          \* arguments of calculate_gradient_colors as binary64 numbers
    f_ends,        \* the first and the last colour it returned, None before
    f_pc,          \* position of the client of the binary64 run
    u_in,          \* arguments of the quantize_array and calculate_opposite_hue calls
    u_quant,       \* what quantize_array returned, None before
    u_opp          \* the hues returned by successive calculate_opposite_hue calls

names_vars == <<colour_dict, COLOR_CACHE, pool, call, ncalls, dict_obj, heap, client>>
grad_vars == <<g_in, g_colors, g_names, g_file, g_pc>>
app_vars == <<app, last_op, nevents, tk_pending>>
hex_vars == <<hex_str, hex_rgb, rt_rgb, rt_hex, hex_pc>>
f64_vars == <<f_in, f_ends, f_pc, u_in, u_quant, u_opp>>

vars == <<colour_dict, COLOR_CACHE, pool, call, ncalls, dict_obj, heap, client, g_in, g_colors, g_names, g_file, g_pc,
          app, last_op, nevents, tk_pending, hex_str, hex_rgb, rt_rgb, rt_hex, hex_pc,
          f_in, f_ends, f_pc, u_in, u_quant, u_opp>>

NoInput == [steps |-> 1, h1 |-> Zero, s1 |-> Zero, v1 |-> Zero, h2 |-> Zero, s2 |-> Zero,
            v2 |-> Zero, fine_shade1 |-> One, fine_shade2 |-> One, fine_hue2 |-> Zero,
            curve |-> 0, shade |-> One]

\* the gradient client does not run
GradIdle ==
    /\ g_in = NoInput
    /\ g_colors = None
    /\ g_names = None
    /\ g_file = NoFile
    /\ g_pc = "idle"

NoCall == [op |-> "none", rgb |-> <<0, 0, 0>>, name |-> "", hit |-> FALSE, visited |-> 0]

\* analyze_color_dict has not started: nothing imported, nothing printed
NoClient == [pc |-> "start", ref |-> 0, size |-> 0, silver |-> <<>>]

\* module import of color_utils: _colour_dict is bound to a new empty dict
ModuleImported ==
    /\ colour_dict = <<>>
    /\ dict_obj = 0
    /\ heap = << <<>> >>

\* the binary64 run and the array and hue utilities are not used
F64Idle ==
    /\ f_in = NoInput
    /\ f_ends = None
    /\ f_pc = "idle"
    /\ u_in = [arr |-> <<>>, levels |-> None, h |-> FZero]
    /\ u_quant = None
    /\ u_opp = <<>>

\* the hex conversions are not used
HexIdle ==
    /\ hex_str = <<>>
    /\ hex_rgb = <<>>
    /\ rt_rgb = <<0, 0, 0>>
    /\ rt_hex = <<>>
    /\ hex_pc = "idle"

\* the application does not run
AppIdle ==
    /\ app = [running |-> FALSE]
    /\ last_op = "none"
    /\ nevents = 0
    /\ tk_pending = {}

\* color_utils is not used
NamesIdle ==
    /\ ModuleImported
    /\ COLOR_CACHE = EmptyCache
    /\ pool = {}
    /\ call = NoCall
    /\ ncalls = 0
    /\ client = NoClient

\* lookups a client makes against a table it may not yet have initialised
SmallQueries ==
    { <<0, 255, 255>>, <<255, 0, 0>>, <<190, 190, 190>>, <<13, 0, 230>>, <<0, 255, 254>> }

\* every RGB of the table, a neighbour of each, and the test suite's colours
TableRGBs == { RGBOf(WebColours[i]) : i \in 1..Len(WebColours) }
Neighbours ==
    { <<c[1], c[2], IF c[3] < 255 THEN c[3] + 1 ELSE c[3] - 1>> : c \in TableRGBs }
TestQueries ==
    { <<190, 190, 190>>, <<130, 130, 130>>, <<255, 160, 5>>, <<13, 0, 230>>,
      <<9, 97, 170>>, <<113, 14, 220>>, <<96, 66, 32>>, <<254, 0, 255>> }
BigQueries == TableRGBs \cup Neighbours \cup TestQueries

\* module import: empty table, empty cache
NamesInit ==
    /\ ModuleImported
    /\ COLOR_CACHE = EmptyCache
    /\ pool \in {SmallQueries} \cup { {q} : q \in BigQueries }
    /\ call = NoCall
    /\ ncalls = 0
    /\ client = NoClient
    /\ GradIdle
    /\ AppIdle
    /\ HexIdle
    /\ F64Idle

\* color_utils.init_color_dict: the dict display creates a new dict object
\* and the global is rebound to it; no existing object is modified
InitColorDictCall ==
    /\ ncalls < MaxCalls
    /\ heap' = Append(heap, WebColours)
    /\ dict_obj' = Len(heap)
    /\ colour_dict' = WebColours
    /\ call' = [NoCall EXCEPT !.op = "init_color_dict"]
    /\ ncalls' = ncalls + 1
    /\ UNCHANGED <<COLOR_CACHE, pool>>
    /\ UNCHANGED grad_vars
    /\ UNCHANGED app_vars
    /\ UNCHANGED hex_vars
    /\ UNCHANGED f64_vars

\* a client call init_color_dict()
init_color_dict ==
    /\ InitColorDictCall
    /\ UNCHANGED client

\* analyze_color_dict, the import statement: the local name _colour_dict is
\* bound to the object the module global is bound to at that moment
AnalyzeImport ==
    /\ client.pc = "start"
    /\ client' = [client EXCEPT !.pc = "imported", !.ref = dict_obj]
    /\ UNCHANGED <<colour_dict, COLOR_CACHE, pool, call, ncalls, dict_obj, heap>>
    /\ UNCHANGED grad_vars
    /\ UNCHANGED app_vars
    /\ UNCHANGED hex_vars
    /\ UNCHANGED f64_vars

\* analyze_color_dict, the call init_color_dict()
AnalyzeInit ==
    /\ client.pc = "imported"
    /\ InitColorDictCall
    /\ client' = [client EXCEPT !.pc = "initialised"]

\* analyze_color_dict, len(_colour_dict) and the test "silver" in _colour_dict,
\* both through the imported binding
AnalyzeRead ==
    /\ client.pc = "initialised"
    /\ LET dict == heap[client.ref + 1]
           \* the value of key "silver", None when the key is absent
           silver == IF \E i \in 1..Len(dict) : NameOf(dict[i]) = "silver"
                     THEN Some(RGBOf(dict[CHOOSE i \in 1..Len(dict) : NameOf(dict[i]) = "silver"]))
                     ELSE None
       IN  client' = [client EXCEPT !.pc = "analysed", !.size = Len(dict), !.silver = silver]
    /\ UNCHANGED <<colour_dict, COLOR_CACHE, pool, call, ncalls, dict_obj, heap>>
    /\ UNCHANGED grad_vars
    /\ UNCHANGED app_vars
    /\ UNCHANGED hex_vars
    /\ UNCHANGED f64_vars

\* a client call get_colour_name(rgb)
GetColourName(rgb) ==
    /\ ncalls < MaxCalls
    /\ LET r == get_colour_name(rgb, colour_dict, COLOR_CACHE)
       IN  /\ COLOR_CACHE' = r.cache
           /\ call' = [op |-> "get_colour_name", rgb |-> rgb, name |-> r.name,
                       hit |-> r.hit, visited |-> r.visited]
    /\ ncalls' = ncalls + 1
    /\ UNCHANGED <<colour_dict, pool, dict_obj, heap, client>>
    /\ UNCHANGED grad_vars
    /\ UNCHANGED app_vars
    /\ UNCHANGED hex_vars
    /\ UNCHANGED f64_vars

\* a client call closest_colour(rgb)
ClosestColour(rgb) ==
    /\ ncalls < MaxCalls
    /\ LET r == closest_colour(rgb, colour_dict, COLOR_CACHE)
       IN  /\ COLOR_CACHE' = r.cache
           /\ call' = [op |-> "closest_colour", rgb |-> rgb, name |-> r.name,
                       hit |-> r.hit, visited |-> r.visited]
    /\ ncalls' = ncalls + 1
    /\ UNCHANGED <<colour_dict, pool, dict_obj, heap, client>>
    /\ UNCHANGED grad_vars
    /\ UNCHANGED app_vars
    /\ UNCHANGED hex_vars
    /\ UNCHANGED f64_vars

NamesNext ==
    \/ init_color_dict
    \/ AnalyzeImport
    \/ AnalyzeInit
    \/ AnalyzeRead
    \/ \E rgb \in pool : GetColourName(rgb)
    \/ \E rgb \in pool : ClosestColour(rgb)

SpecNames == NamesInit /\ [][NamesNext]_vars

(* ------------------------ hex conversions, one run ---------------------- *)
\* arguments of hex_to_rgb: optional surrounding whitespace, optional '#',
\* 2..MaxPairs groups and an optional odd character; the two inputs of the
\* documentation
HexInputs ==
    LET \* two-character groups: digits in both cases, a character that is no
        \* hex digit, signs, whitespace and a '#'
        PairGrid ==
            { <<"0", "0">>, <<"a", "F">>, <<"C", "0">>, <<"0", "g">>,
              <<"-", "f">>, <<"+", "f">>, <<" ", "f">>, <<"f", "#">> }
        RECURSIVE Bodies(_)
        Bodies(n) ==
            IF n = 0 THEN { <<>> }
            ELSE { b \o p : b \in Bodies(n - 1), p \in PairGrid }
    IN
    { lead \o hash \o body \o odd \o trail :
        lead \in { <<>>, <<" ">> }, hash \in { <<>>, <<"#">> },
        body \in UNION { Bodies(n) : n \in 2..MaxPairs },
        odd \in { <<>>, <<"0">> }, trail \in { <<>>, <<"\n">> } }
    \cup { <<"b", "a", "d">>, <<"#", "C", "0", "C", "0", "C", "0">> }

ChannelGrid == { 0, 9, 15, 16, 192, 255 }

HexInit ==
    /\ \/ /\ hex_pc = "start"
          /\ hex_str \in HexInputs
          /\ rt_rgb = <<0, 0, 0>>
       \/ /\ hex_pc = "rt_start"
          /\ hex_str = <<>>
          /\ rt_rgb \in ChannelGrid \X ChannelGrid \X ChannelGrid
    /\ hex_rgb = None
    /\ rt_hex = <<>>
    /\ NamesIdle
    /\ GradIdle
    /\ AppIdle
    /\ F64Idle

\* a client call hex_to_rgb(hex_str)
CallHexToRgb ==
    /\ hex_pc = "start"
    /\ hex_rgb' = hex_to_rgb(hex_str)
    /\ hex_pc' = "parsed"
    /\ UNCHANGED <<hex_str, rt_rgb, rt_hex>>
    /\ UNCHANGED <<names_vars, grad_vars, app_vars, f64_vars>>

\* a client call rgb_to_hex(rt_rgb)
CallRgbToHex ==
    /\ hex_pc = "rt_start"
    /\ rt_hex' = rgb_to_hex(rt_rgb)
    /\ hex_pc' = "formatted"
    /\ UNCHANGED <<hex_str, hex_rgb, rt_rgb>>
    /\ UNCHANGED <<names_vars, grad_vars, app_vars, f64_vars>>

\* the client passes the string back to hex_to_rgb, as it is or in upper
\* case, with or without its '#'
CallHexToRgbBack(upper, hash) ==
    /\ hex_pc = "formatted"
    /\ LET cased == IF upper THEN Upper(rt_hex) ELSE rt_hex
           arg == IF hash THEN cased ELSE Tail(cased)
       IN  /\ hex_str' = arg
           /\ hex_rgb' = hex_to_rgb(arg)
    /\ hex_pc' = "returned"
    /\ UNCHANGED <<rt_rgb, rt_hex>>
    /\ UNCHANGED <<names_vars, grad_vars, app_vars, f64_vars>>

HexNext ==
    \/ CallHexToRgb
    \/ CallRgbToHex
    \/ \E upper \in BOOLEAN, hash \in BOOLEAN : CallHexToRgbBack(upper, hash)

SpecHex == HexInit /\ [][HexNext]_vars

(* ---------------- gradient functions in binary64, one run --------------- *)
\* the arguments are slider positions divided as ColourPicker.py divides
\* them: hundredths for shades and saturations, 360ths for hues
F64Inputs ==
    { [steps |-> st, h1 |-> FDiv(200, 360), s1 |-> FDiv(s1, 100), v1 |-> FDiv(30, 100),
       h2 |-> FDiv(90, 360), s2 |-> FDiv(s2, 100), v2 |-> FDiv(90, 100),
       fine_shade1 |-> FDiv(f1, 100), fine_shade2 |-> FDiv(f2, 100),
       fine_hue2 |-> FDiv(fh, 360), curve |-> cv, shade |-> FDiv(sh, 100)] :
        st \in 1..MaxSteps, s1 \in {0, 70}, s2 \in {0, 100}, f1 \in {99, 100},
        f2 \in {25, 100}, fh \in {-100, 0}, cv \in {-83, 0}, sh \in {80, 100} }

F64Init ==
    /\ f_in \in F64Inputs
    /\ f_ends = None
    /\ f_pc = "start"
    /\ u_in = [arr |-> <<>>, levels |-> None, h |-> FZero]
    /\ u_quant = None
    /\ u_opp = <<>>
    /\ NamesIdle
    /\ GradIdle
    /\ AppIdle
    /\ HexIdle

\* colors = calculate_gradient_colors(steps, h1, ..., shade); colors[0], colors[-1]
CallCalculateGradientColorsF64 ==
    /\ f_pc = "start"
    /\ f_ends' = Some(gradient_ends_f64(f_in.steps, f_in.h1, f_in.s1, f_in.v1,
                        f_in.h2, f_in.s2, f_in.v2, f_in.fine_shade1, f_in.fine_shade2,
                        f_in.fine_hue2, f_in.curve, f_in.shade))
    /\ f_pc' = "calculated"
    /\ UNCHANGED <<f_in, u_in, u_quant, u_opp>>
    /\ UNCHANGED <<names_vars, grad_vars, app_vars, hex_vars>>

F64Next == CallCalculateGradientColorsF64

SpecF64 == F64Init /\ [][F64Next]_vars

(* ------- quantize_array and calculate_opposite_hue on their own -------- *)
\* a client calls quantize_array once on an array of channel values and
\* applies calculate_opposite_hue to a hue and then to the result
UtilInit ==
    /\ u_in \in [arr : { <<0, 128, 255>>, <<237, 18, 127>>, <<255, 255, 255>>, <<1, 36, 200>> },
                 levels : { None, Some(-1), Some(0), Some(1), Some(2), Some(4), Some(8),
                            Some(16), Some(255), Some(256), Some(65536) },
                 h : { FDiv(k, 360) : k \in {0, 36, 90, 180, 200, 270, 359} }
                         \cup { [sg |-> 1, m |-> <<1>>, e |-> -60] }]
    /\ u_quant = None
    /\ u_opp = <<>>
    /\ f_in = NoInput
    /\ f_ends = None
    /\ f_pc = "idle"
    /\ NamesIdle
    /\ GradIdle
    /\ AppIdle
    /\ HexIdle

\* out = quantize_array(arr, levels)
CallQuantizeArray ==
    /\ u_quant = None
    /\ u_quant' = Some(quantize_array(u_in.arr, u_in.levels))
    /\ UNCHANGED <<f_in, f_ends, f_pc, u_in, u_opp>>
    /\ UNCHANGED <<names_vars, grad_vars, app_vars, hex_vars>>

\* h = calculate_opposite_hue(h)
CallCalculateOppositeHue ==
    /\ Len(u_opp) < 2
    /\ u_opp' = Append(u_opp, calculate_opposite_hue(IF u_opp = <<>> THEN u_in.h ELSE u_opp[Len(u_opp)]))
    /\ UNCHANGED <<f_in, f_ends, f_pc, u_in, u_quant>>
    /\ UNCHANGED <<names_vars, grad_vars, app_vars, hex_vars>>

UtilNext == CallQuantizeArray \/ CallCalculateOppositeHue

SpecUtil == UtilInit /\ [][UtilNext]_vars

(* --------------------- gradient functions, one run ---------------------- *)
HueGrid == { Zero, Quarter }
EndHueGrid == { Half }
UnitGrid == { Half, One }
FineHueGrid == { Zero, Quarter }
CurveGrid == { -50, 0, 100 }

GradInputs ==
    { [steps |-> st, h1 |-> h1, s1 |-> s1, v1 |-> v1, h2 |-> h2, s2 |-> s2, v2 |-> v1,
       fine_shade1 |-> f1, fine_shade2 |-> f2, fine_hue2 |-> fh, curve |-> cv, shade |-> sh] :
        st \in 1..MaxSteps, h1 \in HueGrid, s1 \in UnitGrid, v1 \in UnitGrid,
        h2 \in EndHueGrid, s2 \in {One}, f1 \in UnitGrid, f2 \in UnitGrid,
        fh \in FineHueGrid, cv \in CurveGrid, sh \in UnitGrid }

\* the table is initialised, nothing looked up yet, arguments chosen
GradInit ==
    /\ colour_dict = WebColours
    /\ dict_obj = 1
    /\ heap = << <<>>, WebColours >>
    /\ client = NoClient
    /\ COLOR_CACHE = EmptyCache
    /\ pool = {}
    /\ call = NoCall
    /\ ncalls = 0
    /\ g_in \in { g \in GradInputs : CurveExact(g.steps, g.curve) }
    /\ g_colors = None
    /\ g_names = None
    /\ g_file = NoFile
    /\ g_pc = "start"
    /\ AppIdle
    /\ HexIdle
    /\ F64Idle

\* colors = calculate_gradient_colors(steps, h1, ..., shade)
CallCalculateGradientColors ==
    /\ g_pc = "start"
    /\ g_colors' = Some(calculate_gradient_colors(g_in.steps, g_in.h1, g_in.s1, g_in.v1,
                        g_in.h2, g_in.s2, g_in.v2, g_in.fine_shade1, g_in.fine_shade2,
                        g_in.fine_hue2, g_in.curve, g_in.shade))
    /\ g_pc' = "calculated"
    /\ UNCHANGED <<g_in, g_names, g_file>>
    /\ UNCHANGED names_vars
    /\ UNCHANGED app_vars
    /\ UNCHANGED hex_vars
    /\ UNCHANGED f64_vars

\* [get_colour_name(rgb) for rgb in colors]
CallNameColours ==
    /\ g_pc = "calculated"
    /\ LET r == NameEach(Val(g_colors), 1, colour_dict, COLOR_CACHE)
       IN  /\ g_names' = Some(r[1])
           /\ COLOR_CACHE' = r[2]
    /\ g_pc' = "named"
    /\ UNCHANGED <<g_in, g_colors, g_file>>
    /\ UNCHANGED <<colour_dict, pool, call, ncalls, dict_obj, heap, client>>
    /\ UNCHANGED app_vars
    /\ UNCHANGED hex_vars
    /\ UNCHANGED f64_vars

\* export_palette.export_palette(steps, curve, ..., selected_opp_h) with the
\* dialog returning file_path; use_selected tells whether the caller passes
\* the endpoints as the selected colour or passes None for them
CallExportPalette(file_path, use_selected) ==
    /\ g_pc = "named"
    /\ IF file_path = NoPath
       THEN /\ g_pc' = "cancelled"
            /\ UNCHANGED <<g_file, COLOR_CACHE>>
       ELSE LET o(x) == IF use_selected THEN Some(x) ELSE None
                rgbs == export_palette_colors(g_in.steps, g_in.curve, g_in.fine_shade1,
                            g_in.fine_shade2, g_in.fine_hue2, g_in.shade, g_in.h1,
                            o(g_in.h1), o(g_in.s1), o(g_in.v1), o(g_in.h2))
                r == NameEach(rgbs, 1, colour_dict, COLOR_CACHE)
            IN  /\ g_file' = [written |-> TRUE, path |-> file_path,
                              name |-> PaletteName(file_path),
                              rgbs |-> rgbs, names |-> r[1],
                              text |-> PaletteText(PaletteName(file_path), rgbs, r[1]),
                              selected |-> use_selected]
                /\ COLOR_CACHE' = r[2]
                /\ g_pc' = "exported"
    /\ UNCHANGED <<g_in, g_colors, g_names>>
    /\ UNCHANGED <<colour_dict, pool, call, ncalls, dict_obj, heap, client>>
    /\ UNCHANGED app_vars
    /\ UNCHANGED hex_vars
    /\ UNCHANGED f64_vars

GradNext ==
    \/ CallCalculateGradientColors
    \/ CallNameColours
    \/ \E file_path \in Paths \cup { <<"/", "a", ".", "b", "/", "m", "y", ".", "p", "a", "l", ".", "g", "p", "l">> },
             use_selected \in BOOLEAN : CallExportPalette(file_path, use_selected)

SpecGradient == GradInit /\ [][GradNext]_vars

(* --------------------------- the application ---------------------------- *)
\* largest number of UI events in one explored run
MaxEvents == 2

HueValues == { Zero, Quarter }
ShadeValues == { Half, One }
StepsValues == 2..MaxSteps
CurveValues == { -50, 0 }
FineShadeValues == { Half, One }
FineHueValues == { Zero, Quarter }
\* pointer positions: one inside the wheel, one outside
Positions ==
    { [inside |-> TRUE, angle |-> Quarter, s |-> Half],
      NoEventPos }
\* the squares the pointer visits: the second and the third
SquareIndexes == {1, 2}

AppInit ==
    /\ app = NewApp
    /\ last_op = "__init__"
    /\ nevents = 0
    /\ tk_pending = NewApp.tk_after
    /\ HexIdle
    /\ F64Idle
    /\ NamesIdle
    /\ GradIdle

\* op is one of at most MaxEvents events; the click that ends a pointer
\* motion on the canvas may also follow the last of them
Handled(op) ==
    /\ nevents < MaxEvents + (IF op = "toggle_lock" /\ last_op = "on_mouse_move" THEN 1 ELSE 0)
    /\ nevents' = nevents + 1
    /\ last_op' = op
    /\ tk_pending' = app'.tk_after
    /\ UNCHANGED names_vars
    /\ UNCHANGED grad_vars
    /\ UNCHANGED hex_vars
    /\ UNCHANGED f64_vars

\* the hue or the shade slider is moved to another value and calls on_slider
OnSlider(hue, shade) ==
    /\ (hue = app.hue_shift) # (shade = app.shade)
    /\ app' = on_slider(app, hue, shade)
    /\ Handled("on_slider")

OnIntervalSlider(steps) ==
    /\ steps # app.gradient_steps
    /\ app' = on_interval_slider(app, steps)
    /\ Handled("on_interval_slider")

OnCurveSlider(curve) ==
    /\ curve # app.gradient_curve
    /\ app' = on_curve_slider(app, curve)
    /\ Handled("on_curve_slider")

\* one of the three fine-tune sliders is moved to another value
OnFineSlider(fine_shade1, fine_shade2, fine_hue2) ==
    /\ Cardinality({ k \in 1..3 :
           <<fine_shade1, fine_shade2, fine_hue2>>[k]
               # <<app.fine_shade1, app.fine_shade2, app.fine_hue2>>[k] }) = 1
    /\ app' = on_fine_slider(app, fine_shade1, fine_shade2, fine_hue2)
    /\ Handled("on_fine_slider")

\* <Button-1> on the canvas
ToggleLock ==
    /\ app' = toggle_lock(app)
    /\ Handled("toggle_lock")

\* <Motion> on the canvas
OnMouseMove(event) ==
    /\ app' = on_mouse_move(app, event)
    /\ Handled("on_mouse_move")

\* <Enter> on the displayed square idx
OnSquareHover(idx) ==
    /\ idx < Len(app.squares)
    /\ app' = on_square_hover(app, idx)
    /\ Handled("on_square_hover")

\* <Button-1> on the displayed square idx
OnSquareClick(idx) ==
    /\ idx < Len(app.squares)
    /\ app' = on_square_click(app, idx)
    /\ Handled("on_square_click")

\* the Export button, the dialog returning file_path
ExportPalette(file_path) ==
    /\ app' = export_palette(app, file_path)
    /\ Handled(IF file_path = NoPath THEN "export_cancelled" ELSE "export_palette")

\* Tk runs the pending `after` callback id: populate_squares
TimerFire(id) ==
    /\ id \in app.tk_after
    /\ app' = populate_squares([app EXCEPT !.tk_after = @ \ {id}])
    /\ last_op' = "populate_squares"
    /\ tk_pending' = app'.tk_after
    /\ UNCHANGED nevents
    /\ UNCHANGED names_vars
    /\ UNCHANGED grad_vars
    /\ UNCHANGED hex_vars
    /\ UNCHANGED f64_vars

AppNext ==
    \/ \E hue \in HueValues, shade \in ShadeValues : OnSlider(hue, shade)
    \/ \E steps \in StepsValues : OnIntervalSlider(steps)
    \/ \E curve \in CurveValues : OnCurveSlider(curve)
    \/ \E f1 \in FineShadeValues, f2 \in FineShadeValues, fh \in FineHueValues :
          OnFineSlider(f1, f2, fh)
    \/ ToggleLock
    \/ \E event \in Positions : OnMouseMove(event)
    \/ \E idx \in SquareIndexes : OnSquareHover(idx)
    \/ \E idx \in SquareIndexes : OnSquareClick(idx)
    \/ \E file_path \in Paths : ExportPalette(file_path)
    \/ \E id \in app.tk_after : TimerFire(id)

SpecApp == AppInit /\ [][AppNext]_vars

\* a pending `after` callback leaves Tk's queue because it runs: these are
\* the TimerFire steps (after_cancel removes one only together with a new
\* after call)
TimerRuns == \E id \in tk_pending : tk_pending' = tk_pending \ {id}

\* the Tk main loop runs a pending callback once its delay has passed
SpecAppLive == AppInit /\ [][AppNext]_vars /\ WF_tk_pending(TimerRuns)


(* ============================ properties ================================ *)

(* ---- gradient functions (SpecGradient) ---- *)
\* the endpoints calculate_gradient_colors interpolates between
AdjV1 == RMul(g_in.shade, g_in.fine_shade1)
AdjV2 == RMul(g_in.shade, g_in.fine_shade2)
AdjH2 == RMod1(RAdd(g_in.h2, g_in.fine_hue2))

\* C1: calculate_gradient_colors returns exactly `steps` colours, element i
\* being the colour of index i in ascending order, and a single step is
\* computed with t = 0, i.e. it is the start colour
C1_ExactlyStepsColours ==
    g_colors # None =>
        /\ Len(Val(g_colors)) = g_in.steps
        /\ \A i \in 0..(g_in.steps - 1) :
              Val(g_colors)[i + 1] =
                  GradientColorAt(i, g_in.steps, g_in.h1, g_in.s1, AdjV1, AdjH2, g_in.s2,
                                  AdjV2, g_in.curve)
        /\ g_in.steps = 1 => Val(g_colors) = <<hsv_to_rgb255(RMod1(g_in.h1), g_in.s1, AdjV1)>>

C1_Witness == g_pc = "calculated" /\ g_in.steps = 1 /\ g_in.curve # 0 /\ g_in.fine_hue2 # Zero

\* the end-to-end scenario: start HSV (0,1,1), end HSV (0.5,1,1), curve 0,
\* fine shades 1.0, fine_hue2 0, shade 1.0
Scenario(steps) ==
    /\ g_in.steps = steps
    /\ g_in.h1 = Zero /\ g_in.s1 = One /\ g_in.v1 = One
    /\ g_in.h2 = Half /\ g_in.s2 = One /\ g_in.v2 = One
    /\ g_in.curve = 0 /\ g_in.fine_shade1 = One /\ g_in.fine_shade2 = One
    /\ g_in.fine_hue2 = Zero /\ g_in.shade = One

\* C2 as stated: in the steps=2 scenario the gradient is
\* [RGB(255,0,0), RGB(0,255,255)] and get_colour_name resolves "red", "cyan"
C2_Original ==
    (Scenario(2) /\ g_names # None) =>
        /\ Val(g_colors) = << <<255, 0, 0>>, <<0, 255, 255>> >>
        /\ Val(g_names) = <<"red", "cyan">>

\* C2 amended: in the steps=2 scenario the gradient is
\* [RGB(255,0,0), RGB(0,255,255)] and get_colour_name resolves "red", "aqua"
C2_RedAqua ==
    (Scenario(2) /\ g_names # None) =>
        /\ Val(g_colors) = << <<255, 0, 0>>, <<0, 255, 255>> >>
        /\ Val(g_names) = <<"red", "aqua">>

C2_Witness == Scenario(2) /\ g_pc = "named"

\* C3 as stated: in the steps=3 scenario the middle colour is the RGB
\* conversion of HSV(0.25,1,1), with green 255 and blue 0
C3_Original ==
    (Scenario(3) /\ g_colors # None) =>
        /\ Val(g_colors)[2] = hsv_to_rgb255(Quarter, One, One)
        /\ Val(g_colors)[2][2] = 255
        /\ Val(g_colors)[2][3] = 0

\* C3 amended: in the steps=3 scenario the middle colour is interpolated at
\* hue 0.75 (the hue delta of opposite hues is -0.5): it is the RGB
\* conversion of HSV(0.75,1,1), (127,0,255)
C3_MiddleHueThreeQuarters ==
    (Scenario(3) /\ g_colors # None) =>
        /\ Val(g_colors)[2] = hsv_to_rgb255(Rat(3, 4), One, One)
        /\ Val(g_colors)[2] = <<127, 0, 255>>

C3_Witness == Scenario(3) /\ g_pc = "calculated"

\* order and circular distance of exact rationals
RLeq(a, b) == a[1] * b[2] <= b[1] * a[2]
RLess(a, b) == a[1] * b[2] < b[1] * a[2]
CircDist(a, b) ==
    LET d == RMod1(RSub(a, b))
        e == RMod1(RSub(b, a))
    IN  IF RLeq(d, e) THEN d ELSE e

\* the hue of the colour of index i
HueAt(i) ==
    RMod1(RAdd(g_in.h1, RMul(curve_t(StepT(i, g_in.steps), g_in.curve),
                             HueDelta(g_in.h1, AdjH2))))

C5_ExportEqualsCalculate ==
    (g_file.written /\ g_file.selected /\ g_in.s2 = g_in.s1 /\ g_in.v2 = g_in.v1) =>
        g_file.rgbs = Val(g_colors)

(* ---- the application (SpecApp) ---- *)
\* C4 as stated: whenever export_palette has written the file, its colour
\* sequence equals the colours of the squares currently displayed
C4_Original ==
    last_op = "export_palette" => app.file.rgbs = app.squares

\* C4 amended: whenever export_palette has written the file while no
\* populate_squares timer was pending, its colour sequence equals, index
\* for index, the colours of the squares currently displayed
C4_ExportMatchesDisplayWhenSettled ==
    (last_op = "export_palette" /\ app.tk_after = {}) => app.file.rgbs = app.squares

C4_Witness ==
    /\ last_op = "export_palette" /\ app.tk_after = {}
    /\ app.shade = Half /\ app.file.written /\ Len(app.file.rgbs) = DefaultSteps

\* C6: in every state and for every idx below gradient_steps the colour
\* populate_squares draws for square idx, the primary colour
\* on_square_hover(idx) reports and the idx-th colour export_palette writes
\* are the same triple; a square just hovered shows the colour in the readout
C6_ThreeComputationsAgree ==
    /\ LET drawn == populate_colors(app)
           written == export_colors(app)
       IN  \A idx \in 0..(app.gradient_steps - 1) :
               LET reported == hover_color(app, idx)
               IN  drawn[idx + 1] = reported /\ written[idx + 1] = reported
    /\ (last_op = "on_square_hover" /\ app.last_panel = "squares"
          /\ app.last_square_idx # None /\ app.tk_after = {}) =>
              (Val(app.last_square_idx) < app.gradient_steps =>
                  /\ app.text.shown
                  /\ app.text.rgb = app.squares[Val(app.last_square_idx) + 1])

C6_Witness ==
    /\ last_op = "on_square_hover" /\ app.last_panel = "squares"
    /\ app.tk_after = {} /\ app.text.shown
    /\ app.gradient_steps = 3 /\ app.last_square_idx = Some(2)
    /\ app.text.rgb = app.squares[3]

\* C16: when the save dialog is cancelled, export_palette leaves the whole
\* application state unchanged: no file is written, the name cache, the
\* pending timer and every attribute stay as they were
C16_CancelChangesNothing ==
    [][(last_op' = "export_cancelled" /\ nevents' = nevents + 1) => app' = app]_vars

C16_Witness ==
    /\ last_op = "export_cancelled" /\ nevents = 2
    /\ ~app.file.written /\ app.tk_after # {} /\ app.shade = Half

\* C17: at most one populate_squares timer is pending, it is the one
\* populate_timer holds, and when it fires none is left: however many
\* events scheduled it, populate_squares runs once
C17_AtMostOnePendingTimer ==
    /\ [](/\ Cardinality(app.tk_after) <= 1
          /\ app.tk_after # {} => app.tk_after = {Val(app.populate_timer)})
    /\ [][(last_op' = "populate_squares" /\ app'.tk_after # app.tk_after) =>
              app'.tk_after = {}]_vars

C17_Witness ==
    /\ last_op = "populate_squares" /\ nevents = 2
    /\ app.tk_seq >= 2 /\ app.tk_after = {}

\* C18: a scheduled populate_squares eventually runs, and whenever no timer
\* is pending the squares are the gradient of the current state
C18_DebounceSettles ==
    /\ [](tk_pending = app.tk_after)
    /\ [](app.tk_after = {} => app.squares = populate_colors(app))
    /\ (app.tk_after # {}) ~>
          (app.tk_after = {} /\ last_op = "populate_squares"
              /\ app.squares = populate_colors(app))

C18_Witness ==
    /\ last_op = "populate_squares" /\ nevents = 2 /\ app.tk_after = {}
    /\ app.shade = Half /\ app.hue_shift = Quarter
    /\ app.squares = populate_colors(app)
    /\ app.squares # NewApp.squares

\* C26: after every handler last_square_idx is None or below
\* gradient_steps, so on_square_hover never interpolates at t > 1 and the
\* channels of the readout stay in 0..255.
C26_SquareIndexInRange ==
    /\ app.last_square_idx # None => Val(app.last_square_idx) \in 0..(app.gradient_steps - 1)
    /\ app.text.shown => \A k \in 1..3 : app.text.rgb[k] \in 0..255

\* C27: while locked on square k, a hover over a square and a pointer
\* motion over the wheel leave last_square_idx and the readout as they are.
C27_SquareLockHolds ==
    [][(/\ app.locked /\ app.last_panel = "squares" /\ app.last_square_idx # None
        /\ nevents' = nevents + 1
        /\ last_op' \in {"on_square_hover", "on_mouse_move"})
          => (app'.last_square_idx = app.last_square_idx /\ app'.text = app.text)]_vars

\* C28: while locked on the wheel, on_mouse_move and on_square_hover leave
\* locked, last_panel, last_square_idx, the readout and the selection as
\* they are and schedule no populate_squares.
C28_WheelLockFreezes ==
    [][(/\ app.locked /\ app.last_panel = "wheel"
        /\ nevents' = nevents + 1
        /\ last_op' \in {"on_square_hover", "on_mouse_move"})
          => (/\ app'.locked = app.locked
              /\ app'.last_panel = app.last_panel
              /\ app'.last_square_idx = app.last_square_idx
              /\ app'.text = app.text
              /\ app'.selected_h = app.selected_h
              /\ app'.selected_s = app.selected_s
              /\ app'.selected_v = app.selected_v
              /\ app'.selected_rgb = app.selected_rgb
              /\ app'.selected_opp_h = app.selected_opp_h
              /\ app'.selected_opp_rgb = app.selected_opp_rgb
              /\ app'.tk_after = app.tk_after
              /\ app'.tk_seq = app.tk_seq
              /\ app'.populate_timer = app.populate_timer)]_vars

\* locked on the wheel by a click, then entering a square: nothing shown
C28_Witness ==
    /\ app.locked /\ app.last_panel = "wheel"
    /\ last_op = "on_square_hover" /\ nevents = 2
    /\ ~app.text.shown /\ app.last_square_idx = None

\* C29: the six selection fields are all None or all set; when set,
\* selected_opp_h = (selected_h + 0.5) mod 1 and selected_v is the global
\* shade.
C29_SelectionConsistent ==
    LET fields == { app.selected_h, app.selected_s, app.selected_v, app.selected_rgb,
                    app.selected_opp_h, app.selected_opp_rgb }
    IN  /\ (\A f \in fields : f = None) \/ (\A f \in fields : f # None)
        /\ app.selected_h # None =>
              /\ app.selected_opp_h = Some(RMod1(RAdd(Val(app.selected_h), Half)))
              /\ app.selected_v = Some(app.shade)

\* the shade slider was moved, then the pointer moved inside the wheel
C29_Witness ==
    /\ last_op = "on_mouse_move" /\ app.shade = Half
    /\ app.selected_v = Some(Half) /\ app.selected_opp_h # None

\* C30: last_square_idx is set exactly when last_panel = "squares".
C30_IndexIffSquares ==
    (app.last_square_idx # None) <=> (app.last_panel = "squares")

(* ---- the curve and the channel range (SpecGradient) ---- *)
\* C21: curve_t(0, c) = 0 and curve_t(1, c) = 1 for every curve c,
\* curve_t(t, 0) = t, and the copies of curve_t in gradient_logic,
\* export_palette and ColourWheelApp return the same value for every
\* interpolation parameter of the gradient
C21_CurveTEndpoints ==
    g_colors # None =>
        /\ \A c \in {-100, -50, 0, 50, 100} :
              /\ curve_t(Zero, c) = Zero /\ curve_t(One, c) = One
              /\ Export_curve_t(Zero, c) = Zero /\ Export_curve_t(One, c) = One
              /\ App_curve_t(Zero, c) = Zero /\ App_curve_t(One, c) = One
        /\ \A i \in 0..(g_in.steps - 1) :
              LET t == StepT(i, g_in.steps)
              IN  /\ curve_t(t, 0) = t /\ Export_curve_t(t, 0) = t /\ App_curve_t(t, 0) = t
                  /\ Export_curve_t(t, g_in.curve) = curve_t(t, g_in.curve)
                  /\ App_curve_t(t, g_in.curve) = curve_t(t, g_in.curve)

\* a curved gradient with a middle step: curve_t(1/2, -50) = 1/4
C21_Witness ==
    /\ g_pc = "calculated" /\ g_in.steps = 3 /\ g_in.curve = -50
    /\ curve_t(StepT(1, 3), g_in.curve) = Rat(1, 4)

\* C22: every colour calculate_gradient_colors returns is a triple of
\* integers, each in 0..255
C22_ChannelsInRange ==
    g_colors # None =>
        \A i \in 1..Len(Val(g_colors)) :
            /\ Len(Val(g_colors)[i]) = 3
            /\ \A k \in 1..3 : Val(g_colors)[i][k] \in 0..255

\* a three-step gradient at full shade and saturation: the start colour
\* has a channel at each end of the range
C22_Witness ==
    /\ g_pc = "calculated" /\ g_in.steps = 3 /\ g_in.curve # 0
    /\ g_in.shade = One /\ g_in.fine_shade1 = One /\ g_in.s1 = One
    /\ \E k \in 1..3 : Val(g_colors)[1][k] = 255
    /\ \E k \in 1..3 : Val(g_colors)[1][k] = 0

(* ---- gradient functions in binary64 (SpecF64) ---- *)
\* C20: the first colour returned is the conversion of
\* HSV(h1 mod 1, s1, shade * fine_shade1) and, for steps >= 2, the last is
\* the conversion of HSV((h2 + fine_hue2) mod 1, s2, shade * fine_shade2),
\* whatever the curve; the v1 and v2 arguments do not reach the result
C20_EndpointColours ==
    f_ends # None =>
        /\ Val(f_ends)[1] =
              hsv_to_rgb255_f64(FMod1(f_in.h1), f_in.s1, FMul(f_in.shade, f_in.fine_shade1))
        /\ f_in.steps >= 2 =>
              Val(f_ends)[2] =
                  hsv_to_rgb255_f64(FMod1(FAdd(f_in.h2, f_in.fine_hue2)), f_in.s2,
                                    FMul(f_in.shade, f_in.fine_shade2))
        /\ Val(f_ends) =
              gradient_ends_f64(f_in.steps, f_in.h1, f_in.s1, FZero, f_in.h2, f_in.s2, FInt(1),
                                f_in.fine_shade1, f_in.fine_shade2, f_in.fine_hue2,
                                f_in.curve, f_in.shade)

(* ---- array and hue utilities (SpecUtil) ---- *)
\* C23: quantize_array returns the array unchanged when levels is None or
\* levels >= 256, and an array of 128s (without failing) when levels <= 1.
C23_QuantizeTrivialLevels ==
    u_quant # None =>
        /\ (u_in.levels = None \/ Val(u_in.levels) >= 256) => Val(u_quant) = u_in.arr
        /\ (u_in.levels # None /\ Val(u_in.levels) <= 1) =>
               Val(u_quant) = [i \in 1..Len(u_in.arr) |-> 128]

C23_Witness ==
    /\ u_in.levels = Some(0) /\ u_in.arr = <<237, 18, 127>>
    /\ u_quant = Some(<<128, 128, 128>>)

\* round(x / step) * step in exact arithmetic with step = 255 / (levels - 1),
\* truncated: no x in 0..255 is half way between two levels
QuantizeExact(x, levels) == (255 * ((2 * x * (levels - 1) + 255) \div 510)) \div (levels - 1)

\* C24: for 2 <= levels <= 255 every channel x in 0..255 comes out as
\* round(x / step) * step with step = 255 / (levels - 1), clamped to [0,255]
\* and truncated; so 0 gives 0, 255 gives 255, the mapping does not
\* decrease, and there are at most `levels` different outputs.
C24_NearestLevel ==
    (u_quant # None /\ u_in.levels # None /\ Val(u_in.levels) \in 2..255) =>
        LET out == Val(u_quant)
            n == Len(u_in.arr)
        IN  /\ \A i \in 1..n : out[i] = QuantizeExact(u_in.arr[i], Val(u_in.levels))
            /\ \A i \in 1..n : u_in.arr[i] = 0 => out[i] = 0
            /\ \A i \in 1..n : u_in.arr[i] = 255 => out[i] = 255
            /\ \A i, j \in 1..n : u_in.arr[i] <= u_in.arr[j] => out[i] <= out[j]
            /\ Cardinality({ out[i] : i \in 1..n }) <= Val(u_in.levels)

\* a binary64 number in [0, 1)
InUnit(x) == x.m = <<>> \/ (x.sg = 1 /\ x.e < 0 /\ LShiftR(x.m, -x.e) = <<>>)

\* 0 <= x <= 2^-53
Tiny(x) ==
    \/ x.m = <<>>
    \/ x.sg = 1 /\ x.e = -53 /\ x.m = <<1>>
    \/ x.sg = 1 /\ x.e < -53 /\ LShiftR(x.m, -53 - x.e) = <<>>

\* the hues a and b of [0, 1) are at most 2^-53 apart on the circle
CircClose(a, b) ==
    LET d == FSub(a, b)
        ad == IF d.m = <<>> THEN d ELSE [d EXCEPT !.sg = 1]
    IN  Tiny(ad) \/ Tiny(FSub(FInt(1), ad))

C11_InitIdempotent ==
    [][(call'.op = "init_color_dict" /\ ncalls' = ncalls + 1 /\ colour_dict # <<>>) =>
           /\ dict_obj' = dict_obj
           /\ colour_dict' = colour_dict
           /\ COLOR_CACHE' = COLOR_CACHE]_vars

\* C12: once analyze_color_dict has called init_color_dict, the table it
\* imported before the call has entries, "silver" -> (192,192,192) among them
C12_ImportedBindingPopulated ==
    (client.pc = "analysed") =>
        (client.size # 0 /\ client.silver = Some(<<192, 192, 192>>))

IsLookup(c) == c.op \in {"get_colour_name", "closest_colour"}
TableNames == { NameOf(WebColours[i]) : i \in 1..Len(WebColours) }

\* C7: every get_colour_name call made once init_color_dict has been called
\* returns the name of a table entry, never "unknown"
C7_NoUnknownAfterInit ==
    (call.op = "get_colour_name" /\ colour_dict # <<>>) =>
        (call.name # "unknown" /\ call.name \in TableNames)

\* C8: a lookup of an already cached triple returns the cached name without
\* visiting the table, and no step removes or changes a cache entry
C8_CacheStable ==
    [][ /\ \A k \in DOMAIN COLOR_CACHE :
              k \in DOMAIN COLOR_CACHE' /\ COLOR_CACHE'[k] = COLOR_CACHE[k]
        /\ (ncalls' = ncalls + 1 /\ IsLookup(call') /\ call'.rgb \in DOMAIN COLOR_CACHE) =>
              (call'.hit /\ call'.visited = 0 /\ call'.name = COLOR_CACHE[call'.rgb]) ]_vars

C8_Witness ==
    /\ call.op = "closest_colour" /\ call.hit /\ ncalls = 3
    /\ colour_dict # <<>> /\ COLOR_CACHE[call.rgb] = "unknown"

\* C9: for a triple equal to a table entry and not yet cached,
\* get_colour_name returns the first name in insertion order with that RGB
C9_FirstExactMatch ==
    (call.op = "get_colour_name" /\ ~call.hit /\ colour_dict # <<>>
        /\ call.rgb \in TableRGBs) =>
        /\ \E i \in 1..Len(WebColours) :
              /\ NameOf(WebColours[i]) = call.name
              /\ RGBOf(WebColours[i]) = call.rgb
              /\ \A j \in 1..(i - 1) : RGBOf(WebColours[j]) # call.rgb
        /\ call.rgb = <<0, 255, 255>> => call.name = "aqua"
        /\ call.rgb = <<255, 255, 255>> => call.name = "white"
        /\ call.rgb = <<0, 0, 0>> => call.name = "black"
        /\ call.rgb = <<255, 0, 0>> => call.name = "red"
        /\ call.rgb = <<0, 255, 0>> => call.name = "lime"
        /\ call.rgb = <<192, 192, 192>> => call.name = "silver"
        /\ call.rgb = <<128, 128, 128>> => call.name = "gray"

C9_Witness ==
    /\ call.op = "get_colour_name" /\ ~call.hit /\ colour_dict # <<>>
    /\ call.rgb = <<0, 255, 255>> /\ call.name = "aqua"

\* C10: for a triple with no exact table match and not yet cached,
\* get_colour_name returns the entry of least squared RGB distance, the
\* earliest one among those at that distance
C10_NearestFirst ==
    (call.op = "get_colour_name" /\ ~call.hit /\ colour_dict # <<>>
        /\ call.rgb \notin TableRGBs) =>
        /\ \E i \in 1..Len(WebColours) :
              /\ NameOf(WebColours[i]) = call.name
              /\ \A j \in 1..Len(WebColours) :
                    Dist(RGBOf(WebColours[i]), call.rgb) <= Dist(RGBOf(WebColours[j]), call.rgb)
              /\ \A j \in 1..(i - 1) :
                    Dist(RGBOf(WebColours[i]), call.rgb) < Dist(RGBOf(WebColours[j]), call.rgb)
        /\ call.rgb = <<190, 190, 190>> => call.name = "silver"
        /\ call.rgb = <<130, 130, 130>> => call.name = "gray"
        /\ call.rgb = <<255, 160, 5>> => call.name = "orange"

C10_Witness ==
    /\ call.op = "get_colour_name" /\ ~call.hit /\ colour_dict # <<>>
    /\ call.rgb = <<13, 0, 230>> /\ call.name = "blue"

(* ---- hex strings (SpecHex) ---- *)
\* what is left of s after stripping surrounding whitespace and one leading '#'
Reduced(s) ==
    LET t == strip(s) IN IF t # <<>> /\ t[1] = "#" THEN Tail(t) ELSE t
SixHexDigits(s) == Len(s) = 6 /\ \A i \in 1..6 : IsHexChar(s[i])
InByteRange(rgb) == \A k \in 1..3 : rgb[k] \in 0..255

\* C13: hex_to_rgb returns None for every string that does not reduce to six
\* hex digits, so every triple it returns has its channels in 0..255
C13_HexToRgbRejects ==
    (hex_pc = "parsed") =>
        /\ ~SixHexDigits(Reduced(hex_str)) => hex_rgb = None
        /\ hex_rgb # None => InByteRange(Val(hex_rgb))

\* C14: for channels in 0..255 rgb_to_hex gives '#' and six lower-case hex
\* digits, hex_to_rgb of that string (in either case, with or without '#')
\* gives the triple back, and hex_to_rgb accepts every string that reduces to
\* six hex digits with the value of each digit pair
C14_HexRoundTrip ==
    /\ (hex_pc \in {"formatted", "returned"} /\ InByteRange(rt_rgb)) =>
          /\ Len(rt_hex) = 7 /\ rt_hex[1] = "#"
          /\ \A i \in 2..7 : \E d \in 1..16 : LowerDigits[d] = rt_hex[i]
    /\ (hex_pc = "returned" /\ InByteRange(rt_rgb)) => hex_rgb = Some(rt_rgb)
    /\ (hex_pc = "parsed" /\ SixHexDigits(Reduced(hex_str))) =>
          LET b == Reduced(hex_str)
          IN  hex_rgb = Some(<<16 * HexVal(b[1]) + HexVal(b[2]),
                               16 * HexVal(b[3]) + HexVal(b[4]),
                               16 * HexVal(b[5]) + HexVal(b[6])>>)

C14_Witness ==
    /\ hex_pc = "returned" /\ rt_rgb = <<192, 9, 255>>
    /\ rt_hex = <<"#", "c", "0", "0", "9", "f", "f">>
    /\ hex_str = <<"C", "0", "0", "9", "F", "F">>
    /\ hex_rgb = Some(<<192, 9, 255>>)

(* ---- the palette file (SpecGradient) ---- *)
\* the lines of a text: the pieces between its newline elements
RECURSIVE SplitLines(_, _)
SplitLines(text, line) ==
    IF text = <<>> THEN <<line>>
    ELSE IF text[1] = "\n" THEN <<line>> \o SplitLines(Tail(text), <<>>)
    ELSE SplitLines(Tail(text), Append(line, text[1]))

Paths_mypalette ==
    <<"/", "t", "m", "p", "/", "m", "y", "p", "a", "l", "e", "t", "t", "e", ".", "g", "p", "l">>
Mypalette == <<"m", "y", "p", "a", "l", "e", "t", "t", "e">>

\* C15: the text written is "GIMP Palette", "Name: " and the base name of
\* the file without its extension, "#", then one line per gradient index in
\* ascending order: R, G and B right-aligned to width 3 with one space
\* between them, one space, the colour name; newlines only between lines
C15_PaletteFileFormat ==
    g_file.written =>
        LET lines == SplitLines(g_file.text, <<>>)
            stem == PaletteName(g_file.path)
        IN  /\ Len(lines) = 3 + g_in.steps
            /\ lines[1] = <<"GIMP Palette">>
            /\ lines[2] = <<"Name: ">> \o stem
            /\ lines[3] = <<"#">>
            /\ g_file.text[Len(g_file.text)] # "\n"
            /\ \A i \in 1..g_in.steps :
                  LET l == lines[3 + i]
                      rgb == g_file.rgbs[i]
                  IN  /\ Len(l) = 13
                      /\ l[4] = " " /\ l[8] = " " /\ l[12] = " "
                      /\ \A k \in 1..3 :
                            /\ Format3d_nopad(rgb[k]) =
                                   SubSeq(l, 4 * k - Len(Format3d_nopad(rgb[k])), 4 * k - 1)
                            /\ \A j \in (4 * k - 3)..(4 * k - 1 - Len(Format3d_nopad(rgb[k]))) :
                                   l[j] = " "
                      /\ l[13] = g_file.names[i]
                      /\ l[13] = get_colour_name(rgb, colour_dict, EmptyCache).name
            /\ g_file.path = Paths_mypalette => stem = Mypalette
            /\ g_file.path # Paths_mypalette => stem = <<"m", "y", ".", "p", "a", "l">>

C15_Witness ==
    /\ g_file.written /\ g_in.steps = 2
    /\ g_file.text =
          <<"GIMP Palette", "\n", "Name: ", "m", "y", "p", "a", "l", "e", "t", "t", "e", "\n",
            "#", "\n",
            "2", "5", "5", " ", " ", " ", "0", " ", " ", " ", "0", " ", "red", "\n",
            " ", " ", "0", " ", "2", "5", "5", " ", "2", "5", "5", " ", "aqua">>

====
